---- MODULE Spec2Model ----
(***************************************************************************)
(* Sales data entry application (data_entry.py) and its report generator   *)
(* (sales_reporting.py).                                                   *)
(*                                                                         *)
(* Units: money is held in hundredths of the currency unit, a discount in  *)
(* hundredths (100 = the fraction 1.0), a number typed into the form in    *)
(* thousandths.  A date is the pair <<year, month>>; the day               *)
(* of the month is not used by any aggregate.  A progress fraction         *)
(* step / total_steps is the pair <<step, total_steps>>.                   *)
(***************************************************************************)
EXTENDS Integers, Sequences, FiniteSets, TLC

VARIABLES
    \* ---- sales_reporting.generate_sales_report -------------------------
    inputFile,       \* the file at input_file: exists, readable, header, rows
    outputFile,      \* the file at output_file
    callback,        \* progress_callback: "none", "log" or "app"
    pc,              \* position of the pipeline (of the worker thread)
    reported,        \* steps passed to report_progress, in order
    callback_calls,  \* fractions passed to progress_callback, in order
    outcome,         \* how generate_sales_report ended
    attempts,        \* number of times each I/O step was started
    rdf,             \* the table returned by read_and_clean_data
    agg,             \* what the aggregation block computed
    book,            \* tables written to the ExcelWriter's workbook
    wb,              \* the workbook re-opened for the chart pass
    \* ---- data_entry.SalesEntryApp --------------------------------------
    df,              \* self.df rows
    columns,         \* self.df.columns
    history,         \* self.history
    redo_stack,      \* self.redo_stack
    selected_index,  \* self.selected_index (None is -1)
    new_entry_mode,  \* self._new_entry_mode
    filter_options,  \* self.filter_options
    tree,            \* rows shown by the Treeview and its selection
    ui,              \* progress bar, status text, progress window
    dialog,          \* the message boxes that are open, the newest last
    lastOp,          \* the handler that last changed the table or the data file
    fg,              \* where the foreground thread is: in an event loop or
                     \* inside to_excel
    input_file,      \* the path generate_report handed to the worker: DATA_FILE
                     \* as it still is, or the file DATA_FILE named before
    Figure,          \* whether matplotlib was imported (Figure is not None)
    commands,        \* commands the user still gives in a bounded session
                     \* (None in a session that is not bounded)
    others,          \* workers of report runs started while an earlier run
                     \* was still running, that have not ended
    \* ---- pure functions ------------------------------------------------
    call             \* a function applied to drawn inputs, with its result

pipevars == <<inputFile, outputFile, callback, pc, reported, callback_calls,
              outcome, attempts, rdf, agg, book, wb>>
appvars  == <<df, columns, history, redo_stack, selected_index,
              new_entry_mode, filter_options, tree, ui, dialog, lastOp,
              fg, input_file, Figure, commands, others>>
vars     == <<inputFile, outputFile, callback, pc, reported, callback_calls,
              outcome, attempts, rdf, agg, book, wb,
              df, columns, history, redo_stack, selected_index,
              new_entry_mode, filter_options, tree, ui, dialog, lastOp,
                   fg, input_file, Figure, commands, others, call>>

(***************************************************************************)
(* Bounds                                                                  *)
(***************************************************************************)
MaxRows == 3         \* rows of a table drawn for a pure function
MaxPipeRows == 1     \* rows of the input table of a pipeline run
MaxAppRows == 1      \* rows of the application's table
MaxHistory == 1      \* undo entries the application run accumulates
MaxCommands == 4     \* commands the user gives while a report run is followed
MaxOtherRuns == 1    \* report runs started while an earlier one still runs
MaxCols == 2         \* columns of a table written to a sheet
MaxSalesmen == 4     \* salesperson columns of a pivot
MaxEditRows == 2     \* rows of the table in an editing session
MaxEditHistory == 2  \* undo entries an editing session accumulates
MaxUndoRows == 1     \* rows of the table in an undo/redo session
MaxUndoSaves == 1    \* undo entries up to which an undo/redo session appends or deletes rows

(***************************************************************************)
(* Missing-value sentinels                                                 *)
(***************************************************************************)
NaN == -9999                 \* missing number (pandas NaN)
NoneStr == "<NA>"            \* missing text cell
NaT == <<0, 0>>              \* missing date (pandas NaT)
None == -1                   \* Python None for an index

Range(s) == {s[i] : i \in 1..Len(s)}
Last(s) == s[Len(s)]
Front(s) == SubSeq(s, 1, Len(s) - 1)
Min(a, b) == IF a < b THEN a ELSE b
Max(a, b) == IF a > b THEN a ELSE b

RECURSIVE SeqsUpTo(_, _)
SeqsUpTo(S, n) ==
    IF n = 0 THEN {<<>>}
    ELSE LET shorter == SeqsUpTo(S, n - 1)
         IN shorter \cup {Append(s, x) : s \in {t \in shorter : Len(t) = n - 1}, x \in S}

(***************************************************************************)
(* sales_reporting.py: constants                                           *)
(***************************************************************************)
REQUIRED_COLUMNS ==
    << "Date of Request", "Date of Issue", "Date of Delivery", "Sales Man",
       "Customer Name", "Customer DO No", "Definition",
       "Sales Ticket Reference", "SO No", "PO No", "Amount",
       "Total Discount", "CPI", "CPS", "QI Forecast", "Delivery Note",
       "Invoiced", "Invoiced Amount" >>

total_steps == 6

(***************************************************************************)
(* data_entry.py: constants                                                *)
(***************************************************************************)
COLUMNS ==
    << "Date of Request", "Date of Issue", "Date of Delivery", "Sales Man",
       "Customer Name", "Customer PO No", "Definition",
       "Sales Ticket Reference", "SO No", "PTD PO No", "NON-EDI PO No",
       "Amount", "Total Discount", "CPI", "CPS", "QI Forecast",
       "Delivery Note", "Invoiced", "Invoiced Amount" >>

PAGE_SIZE == 15
HISTORY_LIMIT == 20

(***************************************************************************)
(* Cell values of a source table and their normalisation                   *)
(* (sales_reporting.read_and_clean_data and the value normalisers)         *)
(***************************************************************************)
TURKISH_MONTHS ==
    [m \in 1..12 |->
        CASE m = 1 -> "Ocak"     [] m = 2 -> "Subat"   [] m = 3 -> "Mart"
          [] m = 4 -> "Nisan"    [] m = 5 -> "Mayis"   [] m = 6 -> "Haziran"
          [] m = 7 -> "Temmuz"   [] m = 8 -> "Agustos" [] m = 9 -> "Eylul"
          [] m = 10 -> "Ekim"    [] m = 11 -> "Kasim"  [] m = 12 -> "Aralik"]

\* str(value).strip().lower() on the flag texts the model draws
StripLower(v) ==
    CASE v \in {"YES", "Yes", " yes "} -> "yes"
      [] v \in {"NO", "No"} -> "no"
      [] v \in {"EVET", "Evet"} -> "evet"
      [] v \in {"Invoiced", "INVOICED"} -> "invoiced"
      [] v = "Y" -> "y"
      [] v = "TRUE" -> "true"
      [] OTHER -> v

\* str(value).strip().upper() on the flag texts the model draws; a missing
\* cell is the float nan, whose str() is "nan"
StripUpper(v) ==
    CASE v \in {"yes", "Yes", " yes ", "YES"} -> "YES"
      [] v \in {"no", "No", "NO"} -> "NO"
      [] v \in {"na", "NA"} -> "NA"
      [] v = NoneStr -> "NAN"
      [] OTHER -> v

\* lines 173-183; a boolean cell is the text "<True>" or "<False>"
normalise_boolean(v) ==
    IF v \in {"<True>", "<False>"} THEN v = "<True>"
    ELSE IF v = NoneStr THEN FALSE
    ELSE StripLower(v) \in {"yes", "evet", "true", "1", "y", "invoiced"}

\* One row of the table as stored in a file (raw cells).
RawRow(issue, sm, amount, disc, cpi, cps, fc, inv) ==
    [issue |-> issue, sm |-> sm, amount |-> amount, disc |-> disc,
     cpi |-> cpi, cps |-> cps, fc |-> fc, inv |-> inv]

Digits == {"0", "1", "2", "3", "4", "5", "6", "7", "8", "9"}
DigitVal(c) ==
    CASE c = "0" -> 0 [] c = "1" -> 1 [] c = "2" -> 2 [] c = "3" -> 3
      [] c = "4" -> 4 [] c = "5" -> 5 [] c = "6" -> 6 [] c = "7" -> 7
      [] c = "8" -> 8 [] c = "9" -> 9

\* the number a sequence of digit characters denotes
RECURSIVE DigitsVal(_)
DigitsVal(s) ==
    IF s = <<>> THEN 0
    ELSE 10 * DigitsVal(SubSeq(s, 1, Len(s) - 1)) + DigitVal(s[Len(s)])

\* str(n) of a natural number, as its digit characters
RECURSIVE IntStr(_)
IntStr(n) ==
    LET d == CHOOSE c \in Digits : DigitVal(c) = n % 10
    IN IF n < 10 THEN <<d>> ELSE Append(IntStr(n \div 10), d)

\* line 101: f"{int(row['Year'])} {row['MonthName']}": the digits of the
\* year, a blank and the month name (one element)
format_month_year(year, name) == IntStr(year) \o <<" ", name>>

\* line 103: None, where the year or the month name is missing
NoMonthYear == <<NoneStr>>

\* lines 85-106: the row after normalisation, with the derived attributes
CleanRow(r) ==
    LET year == IF r.issue = NaT THEN NaN ELSE r.issue[1]
        month == IF r.issue = NaT THEN NaN ELSE r.issue[2]
        name == IF month = NaN THEN NoneStr ELSE TURKISH_MONTHS[month]
    IN [issue |-> r.issue, sm |-> r.sm, amount |-> r.amount, disc |-> r.disc,
        cpi |-> r.cpi, cps |-> r.cps,
        fc |-> StripUpper(r.fc),
        inv |-> normalise_boolean(r.inv),
        Year |-> year, MonthNumber |-> month, MonthName |-> name,
        MonthYear |-> IF year # NaN /\ name # NoneStr
                      THEN format_month_year(year, name) ELSE NoMonthYear]

CleanTable(rows) == [i \in 1..Len(rows) |-> CleanRow(rows[i])]

\* line 79: the required columns the header lacks, in REQUIRED_COLUMNS order
missing_columns_FirstOnly(cols) ==
    LET all == SelectSeq(REQUIRED_COLUMNS, LAMBDA c : c \notin cols)
    IN IF all = <<>> THEN <<>> ELSE <<Head(all)>>

missing_columns(cols) ==
    SelectSeq(REQUIRED_COLUMNS, LAMBDA c : c \notin cols)

(***************************************************************************)
(* Row subsets and aggregates (sales_reporting.py lines 186-233, 320-322)  *)
(***************************************************************************)
invoiced_df(t) == SelectSeq(t, LAMBDA r : r.inv = TRUE)
not_invoiced_df(t) == SelectSeq(t, LAMBDA r : r.inv = FALSE)
won_df(t) == SelectSeq(t, LAMBDA r : StripUpper(r.fc) = "YES")

\* Series.sum(): a missing value contributes zero
Val_Missing(x) == x

Val(x) == IF x = NaN THEN 0 ELSE x

\* df[column].sum()
RECURSIVE SumCol(_, _)
SumCol(t, column) ==
    IF t = <<>> THEN 0 ELSE Val(Head(t)[column]) + SumCol(Tail(t), column)

\* The salesperson names of the model, in the order groupby sorts its keys.
SalesmanOrder == <<"A", "B", "C">>

\* groupby("Sales Man"): the distinct non-missing keys, sorted; rows whose
\* key is missing belong to no group
GroupKeys(t) ==
    SelectSeq(SalesmanOrder,
              LAMBDA n : \E i \in 1..Len(t) : t[i].sm = n /\ n # NoneStr)

\* [value_column].sum() of one group
GroupSum_FirstRow(t, n, column) ==
    LET g == SelectSeq(t, LAMBDA r : r.sm = n)
    IN IF g = <<>> THEN 0 ELSE Val(Head(g)[column])

GroupSum(t, n, column) ==
    SumCol(SelectSeq(t, LAMBDA r : r.sm = n), column)

\* A stable descending sort: insert x into the descending sequence s, after
\* the entries that are not smaller
RECURSIVE InsertDesc(_, _)
InsertDesc(s, x) ==
    IF s = <<>> THEN <<x>>
    ELSE IF Head(s).total >= x.total THEN <<Head(s)>> \o InsertDesc(Tail(s), x)
    ELSE <<x>> \o s

RECURSIVE SortDesc(_)
SortDesc(s) ==
    IF s = <<>> THEN <<>>
    ELSE InsertDesc(SortDesc(SubSeq(s, 1, Len(s) - 1)), s[Len(s)])

\* sort_values(value_column, ascending=False) with the default
\* kind="quicksort", which is not a stable sort: any arrangement of the rows
\* in descending order of the totals can come out
sort_values_desc(s) ==
    LET n == Len(s)
        perms == {f \in [1..n -> 1..n] : \A i, j \in 1..n : f[i] = f[j] => i = j}
    IN { [i \in 1..n |-> s[f[i]]] :
           f \in {g \in perms : \A i \in 1..(n - 1) : s[g[i]].total >= s[g[i + 1]].total} }

\* lines 228-229: groupby("Sales Man", as_index=False)[value_column].sum()
grouped_totals(t, value_column) ==
    LET keys == GroupKeys(t)
    IN [i \in 1..Len(keys) |->
           [sm |-> keys[i], total |-> GroupSum(t, keys[i], value_column)]]

\* lines 227-233: the tables the call can return
salesperson_totals(t, value_column) ==
    sort_values_desc(grouped_totals(t, value_column))

\* the salesperson columns of pivot_salesman_monthly(t, "CPI"): rows with a
\* missing MonthYear are dropped (line 206) and pivot_table drops missing keys
PivotSalesmen(t) ==
    {t[i].sm : i \in {j \in 1..Len(t) : t[j].MonthYear # NoMonthYear /\ t[j].sm # NoneStr}}

\* len(pivot.columns) after reset_index: the MonthYear column and the salesmen
PivotColumnCount(t) == 1 + Cardinality(PivotSalesmen(t))

(***************************************************************************)
(* Files                                                                   *)
(***************************************************************************)
\* The destination file: "absent", "old" (content from before the run),
\* "empty" (opened for writing, nothing written yet) or "book" (a saved
\* workbook holding `tables`, with `charts`).
AbsentFile == [st |-> "absent", tables |-> {}, charts |-> {}]
OldFile    == [st |-> "old", tables |-> {}, charts |-> {}]
EmptyFile  == [st |-> "empty", tables |-> {}, charts |-> {}]
SavedBook(tables, charts) == [st |-> "book", tables |-> tables, charts |-> charts]

\* The nine tables generate_sales_report writes, in order (lines 361-393),
\* and the sheet of each.
TableIds == 1..9
SheetOf(t) ==
    CASE t \in {1, 2} -> "Ozet Dashboard"
      [] t \in {3, 4} -> "CPI Faturalanan Raporu"
      [] t \in {5, 6} -> "CPI Faturalanmayan Raporu"
      [] t \in {7, 8} -> "CPI Kazanilan Raporu"
      [] OTHER -> "Detay Veri"
PivotSheets ==
    << "CPI Faturalanan Raporu", "CPI Faturalanmayan Raporu", "CPI Kazanilan Raporu" >>

NoOutcome == [kind |-> "none", detail |-> <<>>, at |-> "none"]
NoAttempts == [load |-> 0, read |-> 0, save1 |-> 0, save2 |-> 0]
NoAgg == [column_count |-> <<0, 0, 0>>]
NoWorkbook == [tables |-> {}, charts |-> {}, done |-> 0]
NoUi == [value |-> 0, status |-> "", window |-> FALSE, writer |-> "none"]
\* the foreground thread in an event loop of Tk (the main loop, or the
\* loop of a message box that waits), not inside to_excel
Ready == [at |-> "ready", op |-> "none"]

(***************************************************************************)
(* generate_sales_report (sales_reporting.py lines 303-413)                *)
(***************************************************************************)
\* An exception leaves generate_sales_report: nothing in it catches one.
Raise_Retry(kind, detail) ==
    /\ pc' = pc
    /\ outcome' = [kind |-> kind, detail |-> detail, at |-> pc]

Raise(kind, detail) ==
    /\ pc' = "failed"
    /\ outcome' = [kind |-> kind, detail |-> detail, at |-> pc]

\* where the run goes on after report_progress(step, ...) has returned
AfterProgress(step) ==
    CASE step = 1 -> "load"
      [] step = 2 -> "aggregate"
      [] step = 3 -> "open_writer"
      [] step = 4 -> "progress5"
      [] step = 5 -> "progress6"
      [] OTHER -> "done"

\* lines 410-413: after the last report the function returns
Proceed(step) ==
    /\ pc' = AfterProgress(step)
    /\ outcome' = IF step = total_steps
                  THEN [kind |-> "returned", detail |-> <<>>, at |-> "progress6"]
                  ELSE outcome

\* the worker between the first and the last statement of update_progress
StatusPc(step) ==
    CASE step = 1 -> "status1" [] step = 2 -> "status2" [] step = 3 -> "status3"
      [] step = 4 -> "status4" [] step = 5 -> "status5" [] OTHER -> "status6"

\* data_entry.py lines 2197-2198: update_progress, run by the thread that
\* calls it: progress["value"] = value * 100.  The widget command of a
\* destroyed window is gone and the assignment raises TclError.
update_progress(step) ==
    IF ui.window
    THEN /\ ui' = [ui EXCEPT !.value = (step * 100) \div total_steps,
                             !.writer = "worker"]
         /\ pc' = StatusPc(step)
         /\ UNCHANGED outcome
    ELSE /\ Raise("TclError", <<>>)
         /\ UNCHANGED ui

\* lines 310-313: report_progress(step, total_steps, message)
report_progress_Skip(step) ==
    /\ reported' = Append(reported, step)
    /\ callback_calls' = IF callback # "none" /\ step # 4
                         THEN Append(callback_calls, <<step, total_steps>>)
                         ELSE callback_calls
    /\ IF callback = "app"
       THEN update_progress(step)
       ELSE Proceed(step) /\ UNCHANGED ui

report_progress(step) ==
    /\ reported' = Append(reported, step)
    /\ callback_calls' = IF callback # "none"
                         THEN Append(callback_calls, <<step, total_steps>>)
                         ELSE callback_calls
    /\ IF callback = "app"
       THEN update_progress(step)
       ELSE Proceed(step) /\ UNCHANGED ui

Running == pc \notin {"idle", "done", "failed", "crashed", "worker_end"}

\* line 316
Progress1 ==
    /\ pc = "progress1"
    /\ report_progress(1)
    /\ UNCHANGED <<inputFile, outputFile, callback, attempts, rdf, agg, book, wb>>
    /\ UNCHANGED <<df, columns, history, redo_stack, selected_index,
                   new_entry_mode, filter_options, tree, dialog, lastOp,
                   fg, input_file, Figure, commands, others, call>>

\* the workbook at the path the run was given (input_file, line 303; in
\* the application the value DATA_FILE had at data_entry.py line 2178)
InputOfRun == IF input_file.same THEN inputFile ELSE input_file.file

\* line 317, lines 68-108.  A table without data rows has columns of dtype
\* object; Series.apply returns them as they are and the .dt accessor of
\* line 96 raises AttributeError.
read_and_clean_data_ReadFirst ==
    /\ pc = "load"
    /\ attempts' = [attempts EXCEPT !.load = Min(@ + 1, 3), !.read = Min(@ + 1, 3)]
    /\ IF ~InputOfRun.exists
       THEN Raise("FileNotFoundError", <<>>) /\ UNCHANGED rdf
       ELSE IF ~InputOfRun.readable
       THEN Raise("RuntimeError", <<>>) /\ UNCHANGED rdf
       ELSE IF missing_columns(InputOfRun.cols) # <<>>
       THEN Raise("ValueError", missing_columns(InputOfRun.cols)) /\ UNCHANGED rdf
       ELSE IF InputOfRun.rows = <<>>
       THEN Raise("AttributeError", <<>>) /\ UNCHANGED rdf
       ELSE /\ rdf' = CleanTable(InputOfRun.rows)
            /\ pc' = "progress2"
            /\ UNCHANGED outcome
    /\ UNCHANGED <<inputFile, outputFile, callback, reported, callback_calls, agg, book, wb>>
    /\ UNCHANGED <<df, columns, history, redo_stack, selected_index,
                   new_entry_mode, filter_options, tree, ui, dialog, lastOp,
                   fg, input_file, Figure, commands, others, call>>

read_and_clean_data ==
    /\ pc = "load"
    /\ IF ~InputOfRun.exists
       THEN /\ attempts' = [attempts EXCEPT !.load = Min(@ + 1, 3)]
            /\ Raise("FileNotFoundError", <<>>)
            /\ UNCHANGED rdf
       ELSE /\ attempts' = [attempts EXCEPT !.load = Min(@ + 1, 3), !.read = Min(@ + 1, 3)]
            /\ IF ~InputOfRun.readable
               THEN Raise("RuntimeError", <<>>) /\ UNCHANGED rdf
               ELSE IF missing_columns(InputOfRun.cols) # <<>>
               THEN Raise("ValueError", missing_columns(InputOfRun.cols)) /\ UNCHANGED rdf
               ELSE IF InputOfRun.rows = <<>>
               THEN Raise("AttributeError", <<>>) /\ UNCHANGED rdf
               ELSE /\ rdf' = CleanTable(InputOfRun.rows)
                    /\ pc' = "progress2"
                    /\ UNCHANGED outcome
    /\ UNCHANGED <<inputFile, outputFile, callback, reported, callback_calls, agg, book, wb>>
    /\ UNCHANGED <<df, columns, history, redo_stack, selected_index,
                   new_entry_mode, filter_options, tree, ui, dialog, lastOp,
                   fg, input_file, Figure, commands, others, call>>

\* line 318
Progress2 ==
    /\ pc = "progress2"
    /\ report_progress(2)
    /\ UNCHANGED <<inputFile, outputFile, callback, attempts, rdf, agg, book, wb>>
    /\ UNCHANGED <<df, columns, history, redo_stack, selected_index,
                   new_entry_mode, filter_options, tree, dialog, lastOp,
                   fg, input_file, Figure, commands, others, call>>

\* lines 320-356: subsets, monthly totals, pivots, salesperson totals, metrics
Aggregate ==
    /\ pc = "aggregate"
    /\ \E ok \in BOOLEAN :
         IF ok
         THEN /\ agg' = [column_count |->
                            << PivotColumnCount(invoiced_df(rdf)),
                               PivotColumnCount(not_invoiced_df(rdf)),
                               PivotColumnCount(won_df(rdf)) >>]
              /\ pc' = "progress3"
              /\ UNCHANGED outcome
         ELSE Raise("AggregationError", <<>>) /\ UNCHANGED agg
    /\ UNCHANGED <<inputFile, outputFile, callback, reported, callback_calls,
                   attempts, rdf, book, wb>>
    /\ UNCHANGED <<df, columns, history, redo_stack, selected_index,
                   new_entry_mode, filter_options, tree, ui, dialog, lastOp,
                   fg, input_file, Figure, commands, others, call>>

\* line 358
Progress3 ==
    /\ pc = "progress3"
    /\ report_progress(3)
    /\ UNCHANGED <<inputFile, outputFile, callback, attempts, rdf, agg, book, wb>>
    /\ UNCHANGED <<df, columns, history, redo_stack, selected_index,
                   new_entry_mode, filter_options, tree, dialog, lastOp,
                   fg, input_file, Figure, commands, others, call>>

\* line 360: pd.ExcelWriter(output_file) opens the destination for writing,
\* which creates or truncates it, before any table is written
ExcelWriterOpen ==
    /\ pc = "open_writer"
    /\ attempts' = [attempts EXCEPT !.save1 = Min(@ + 1, 3)]
    /\ \E ok \in BOOLEAN :
         IF ok
         THEN /\ outputFile' = EmptyFile
              /\ book' = {}
              /\ pc' = "write"
              /\ UNCHANGED outcome
         ELSE Raise("OSError", <<>>) /\ UNCHANGED <<outputFile, book>>
    /\ UNCHANGED <<inputFile, callback, reported, callback_calls, rdf, agg, wb>>
    /\ UNCHANGED <<df, columns, history, redo_stack, selected_index,
                   new_entry_mode, filter_options, tree, ui, dialog, lastOp,
                   fg, input_file, Figure, commands, others, call>>

\* lines 361-393, 288-300: the next write_dataframe of the with block.  When
\* it raises, the with statement still closes the writer, which saves the
\* tables written so far, and the exception goes on.
write_dataframe ==
    /\ pc = "write"
    /\ LET t == Cardinality(book) + 1
       IN \E ok \in BOOLEAN :
            IF ok
            THEN /\ book' = book \cup {t}
                 /\ pc' = IF t = 9 THEN "close_writer" ELSE "write"
                 /\ UNCHANGED <<outputFile, outcome>>
            ELSE /\ outputFile' = SavedBook(book, {})
                 /\ Raise("ValueError", <<>>)
                 /\ UNCHANGED book
    /\ UNCHANGED <<inputFile, callback, reported, callback_calls, attempts, rdf, agg, wb>>
    /\ UNCHANGED <<df, columns, history, redo_stack, selected_index,
                   new_entry_mode, filter_options, tree, ui, dialog, lastOp,
                   fg, input_file, Figure, commands, others, call>>

\* line 393, end of the with block: the writer saves the workbook
ExcelWriterClose_NoSave ==
    /\ pc = "close_writer"
    /\ \E ok \in BOOLEAN :
         IF ok
         THEN /\ pc' = "load_workbook"
              /\ UNCHANGED <<outputFile, outcome>>
         ELSE Raise("OSError", <<>>) /\ UNCHANGED outputFile
    /\ UNCHANGED <<inputFile, callback, reported, callback_calls, attempts, rdf, agg, book, wb>>
    /\ UNCHANGED <<df, columns, history, redo_stack, selected_index,
                   new_entry_mode, filter_options, tree, ui, dialog, lastOp,
                   fg, input_file, Figure, commands, others, call>>

ExcelWriterClose ==
    /\ pc = "close_writer"
    /\ \E ok \in BOOLEAN :
         IF ok
         THEN /\ outputFile' = SavedBook(book, {})
              /\ pc' = "load_workbook"
              /\ UNCHANGED outcome
         ELSE Raise("OSError", <<>>) /\ UNCHANGED outputFile
    /\ UNCHANGED <<inputFile, callback, reported, callback_calls, attempts, rdf, agg, book, wb>>
    /\ UNCHANGED <<df, columns, history, redo_stack, selected_index,
                   new_entry_mode, filter_options, tree, ui, dialog, lastOp,
                   fg, input_file, Figure, commands, others, call>>

\* line 395
LoadWorkbook ==
    /\ pc = "load_workbook"
    /\ \E ok \in BOOLEAN :
         IF ok
         THEN /\ wb' = [tables |-> outputFile.tables, charts |-> {}, done |-> 0]
              /\ pc' = "chart"
              /\ UNCHANGED outcome
         ELSE Raise("OSError", <<>>) /\ UNCHANGED wb
    /\ UNCHANGED <<inputFile, outputFile, callback, reported, callback_calls,
                   attempts, rdf, agg, book>>
    /\ UNCHANGED <<df, columns, history, redo_stack, selected_index,
                   new_entry_mode, filter_options, tree, ui, dialog, lastOp,
                   fg, input_file, Figure, commands, others, call>>

ChartFor_LineUpToFour(sheet_name, column_count) ==
    IF column_count <= 1 THEN {}
    ELSE {[sheet |-> sheet_name,
           type |-> IF column_count <= 4 THEN "line" ELSE "bar",
           max_col |-> column_count]}

\* lines 416-429: the chart _add_category_chart attaches, if any
ChartFor(sheet_name, column_count) ==
    IF column_count <= 1 THEN {}
    ELSE {[sheet |-> sheet_name,
           type |-> IF column_count <= 3 THEN "line" ELSE "bar",
           max_col |-> column_count]}

\* lines 397-403: the three _add_category_chart calls, one per step
AddCategoryChart ==
    /\ pc = "chart"
    /\ LET j == wb.done + 1
       IN /\ wb' = [wb EXCEPT !.charts = @ \cup ChartFor(PivotSheets[j], agg.column_count[j]),
                              !.done = j]
          /\ pc' = IF j = 3 THEN "save_open" ELSE "chart"
    /\ UNCHANGED <<inputFile, outputFile, callback, reported, callback_calls,
                   outcome, attempts, rdf, agg, book>>
    /\ UNCHANGED <<df, columns, history, redo_stack, selected_index,
                   new_entry_mode, filter_options, tree, ui, dialog, lastOp,
                   fg, input_file, Figure, commands, others, call>>

\* line 405: workbook.save(output_file) opens the destination for writing,
\* which truncates it ...
WorkbookSaveOpen ==
    /\ pc = "save_open"
    /\ attempts' = [attempts EXCEPT !.save2 = Min(@ + 1, 3)]
    /\ \E ok \in BOOLEAN :
         IF ok
         THEN /\ outputFile' = EmptyFile
              /\ pc' = "save_write"
              /\ UNCHANGED outcome
         ELSE Raise("OSError", <<>>) /\ UNCHANGED outputFile
    /\ UNCHANGED <<inputFile, callback, reported, callback_calls, rdf, agg, book, wb>>
    /\ UNCHANGED <<df, columns, history, redo_stack, selected_index,
                   new_entry_mode, filter_options, tree, ui, dialog, lastOp,
                   fg, input_file, Figure, commands, others, call>>

\* ... and then writes the workbook with its charts
WorkbookSaveWrite ==
    /\ pc = "save_write"
    /\ \E ok \in BOOLEAN :
         IF ok
         THEN /\ outputFile' = SavedBook(wb.tables, wb.charts)
              /\ pc' = "progress4"
              /\ UNCHANGED outcome
         ELSE Raise("OSError", <<>>) /\ UNCHANGED outputFile
    /\ UNCHANGED <<inputFile, callback, reported, callback_calls, attempts, rdf, agg, book, wb>>
    /\ UNCHANGED <<df, columns, history, redo_stack, selected_index,
                   new_entry_mode, filter_options, tree, ui, dialog, lastOp,
                   fg, input_file, Figure, commands, others, call>>

\* line 407
Progress4 ==
    /\ pc = "progress4"
    /\ report_progress(4)
    /\ UNCHANGED <<inputFile, outputFile, callback, attempts, rdf, agg, book, wb>>
    /\ UNCHANGED <<df, columns, history, redo_stack, selected_index,
                   new_entry_mode, filter_options, tree, dialog, lastOp,
                   fg, input_file, Figure, commands, others, call>>

\* line 409
Progress5 ==
    /\ pc = "progress5"
    /\ report_progress(5)
    /\ UNCHANGED <<inputFile, outputFile, callback, attempts, rdf, agg, book, wb>>
    /\ UNCHANGED <<df, columns, history, redo_stack, selected_index,
                   new_entry_mode, filter_options, tree, dialog, lastOp,
                   fg, input_file, Figure, commands, others, call>>

\* lines 410-413: the last report, the closing prints and the return
Progress6 ==
    /\ pc = "progress6"
    /\ report_progress(6)
    /\ UNCHANGED <<inputFile, outputFile, callback, attempts, rdf, agg, book, wb>>
    /\ UNCHANGED <<df, columns, history, redo_stack, selected_index,
                   new_entry_mode, filter_options, tree, dialog, lastOp,
                   fg, input_file, Figure, commands, others, call>>

\* The process is killed (or the machine stops) while the pipeline runs.
Crash ==
    /\ Running
    /\ pc' = "crashed"
    /\ outcome' = [kind |-> "crash", detail |-> <<>>, at |-> pc]
    /\ UNCHANGED <<inputFile, outputFile, callback, reported, callback_calls,
                   attempts, rdf, agg, book, wb>>
    /\ UNCHANGED <<df, columns, history, redo_stack, selected_index,
                   new_entry_mode, filter_options, tree, ui, dialog, lastOp,
                   fg, input_file, Figure, commands, others, call>>

PipelineStep ==
    \/ Progress1 \/ read_and_clean_data \/ Progress2 \/ Aggregate \/ Progress3
    \/ ExcelWriterOpen \/ write_dataframe \/ ExcelWriterClose
    \/ LoadWorkbook \/ AddCategoryChart \/ WorkbookSaveOpen \/ WorkbookSaveWrite
    \/ Progress4 \/ Progress5 \/ Progress6

(***************************************************************************)
(* A report run from the command line (sales_reporting.main, lines 449-451,*)
(* or any caller that passes a callback of its own)                        *)
(***************************************************************************)
RequiredSet == Range(REQUIRED_COLUMNS)
AppColumnSet == Range(COLUMNS)

\* A workbook on disk; `writing` while a writer holds it open
File(exists, readable, cols, rows) ==
    [exists |-> exists, readable |-> readable, cols |-> cols, rows |-> rows,
     writing |-> FALSE]
NoFile == File(FALSE, FALSE, {}, <<>>)
CorruptFile == File(TRUE, FALSE, {}, <<>>)
\* the file from the moment to_excel has opened it for writing (which
\* truncates it) until the workbook is written out and closed: no reader
\* can load it
BeingWritten == [CorruptFile EXCEPT !.writing = TRUE]

\* input_file is the path DATA_FILE still names ...
DATA_FILE == [same |-> TRUE, file |-> NoFile]
\* ... or the path it named before open_existing_file rebound it, where
\* the file f was left
LeftBehind(f) == [same |-> FALSE, file |-> f]

\* headers of the input tables drawn for a run
HeaderChoices ==
    { RequiredSet,
      RequiredSet \cup AppColumnSet,
      RequiredSet \ {"Amount"},
      RequiredSet \ {"Amount", "CPI"},
      AppColumnSet }

\* rows of the input tables drawn for a run
PipeRows ==
    { RawRow(<<2024, 12>>, sm, 1, 0, 1, 0, fc, inv) :
        sm \in {"A", "B"}, fc \in {"YES", "NO"}, inv \in {"YES", "NO"} }

ReportInputs ==
    {NoFile, CorruptFile}
    \cup { File(TRUE, TRUE, h, rows) :
             h \in HeaderChoices, rows \in SeqsUpTo(PipeRows, MaxPipeRows) }

AppIdle ==
    /\ df = <<>>
    /\ columns = AppColumnSet
    /\ history = <<>>
    /\ redo_stack = <<>>
    /\ selected_index = None
    /\ new_entry_mode = FALSE
    /\ filter_options = [salesman |-> ""]
    /\ tree = [items |-> <<>>, selection |-> 0, current_page |-> 1, total_pages |-> 1]
    /\ ui = NoUi
    /\ dialog = <<>>
    /\ lastOp = "none"
    /\ fg = Ready
    /\ input_file = DATA_FILE
    /\ Figure = TRUE
    /\ commands = None
    /\ others = 0

NoCall == [fn |-> "none"]

InitReport ==
    /\ inputFile \in ReportInputs
    /\ outputFile \in {AbsentFile, OldFile}
    /\ callback \in {"none", "log"}
    /\ pc = "progress1"
    /\ reported = <<>>
    /\ callback_calls = <<>>
    /\ outcome = NoOutcome
    /\ attempts = NoAttempts
    /\ rdf = <<>>
    /\ agg = NoAgg
    /\ book = {}
    /\ wb = NoWorkbook
    /\ AppIdle
    /\ call = NoCall

NextReport == PipelineStep \/ Crash

SpecReport == InitReport /\ [][NextReport]_vars

(***************************************************************************)
(* Claims about generate_sales_report                                      *)
(***************************************************************************)
Untouched(f) == f.st \in {"absent", "old"}

\* C2: an input table that lacks required columns ends the run in a
\* ValueError whose message names every missing required column; the
\* destination file is neither created nor modified and no stage after
\* stage 1 is reported.
C2_MissingColumnsFail ==
    (inputFile.exists /\ inputFile.readable /\ RequiredSet \ inputFile.cols # {}) =>
        /\ pc \in {"progress1", "load", "failed", "crashed"}
        /\ pc = "failed" =>
              /\ outcome.kind = "ValueError"
              /\ Range(outcome.detail) = RequiredSet \ inputFile.cols
        /\ Untouched(outputFile)
        /\ Range(reported) \subseteq {1}

C2_Witness ==
    /\ pc = "failed"
    /\ outcome.kind = "ValueError"
    /\ outcome.detail = <<"Amount", "CPI">>
    /\ reported = <<1>>

\* C3: when the input path does not exist the run ends in FileNotFoundError
\* before any read of the input is attempted, and the destination file is
\* neither created nor modified.
C3_NotFoundBeforeRead ==
    ~inputFile.exists =>
        /\ pc \in {"progress1", "load", "failed", "crashed"}
        /\ pc = "failed" => outcome.kind = "FileNotFoundError"
        /\ attempts.read = 0
        /\ Untouched(outputFile)

C3_Witness ==
    /\ ~inputFile.exists
    /\ pc = "failed"
    /\ outcome.kind = "FileNotFoundError"
    /\ attempts.load = 1

\* a / b <= c / d for positive denominators
FracLeq(x, y) == x[1] * y[2] <= y[1] * x[2]

\* C4: a run that completes without error and was given a callback has
\* invoked it exactly six times, the k-th time with the fraction k/6; the
\* fractions never decrease and the last one is 1.
C4_SixCallbacks ==
    (pc = "done" /\ callback # "none") =>
        /\ Len(callback_calls) = 6
        /\ \A k \in 1..Len(callback_calls) : callback_calls[k] = <<k, 6>>
        /\ \A k \in 1..(Len(callback_calls) - 1) :
              FracLeq(callback_calls[k], callback_calls[k + 1])
        /\ callback_calls[Len(callback_calls)][1] = callback_calls[Len(callback_calls)][2]

C4_Witness ==
    /\ pc = "done"
    /\ callback = "log"
    /\ outcome.kind = "returned"
    /\ Len(callback_calls) = 6

\* the stage a step of the pipeline belongs to (spec section 4.5)
StageOf(at) ==
    CASE at \in {"progress1", "load"} -> 1
      [] at \in {"progress2", "aggregate"} -> 2
      [] at \in {"progress3", "open_writer", "write", "close_writer"} -> 3
      [] at \in {"load_workbook", "chart", "save_open", "save_write", "progress4"} -> 4
      [] at = "progress5" -> 5
      [] OTHER -> 6

\* the exceptions each failing step raises
KindsAt(at) ==
    CASE at = "load" -> {"FileNotFoundError", "RuntimeError", "ValueError",
                         "AttributeError"}
      [] at = "aggregate" -> {"AggregationError"}
      [] at = "write" -> {"ValueError"}
      [] at \in {"open_writer", "close_writer", "load_workbook", "save_open", "save_write"}
            -> {"OSError"}
      [] at \in {"progress1", "progress2", "progress3", "progress4", "progress5",
                 "progress6"} -> {"TclError"}
      [] OTHER -> {}

\* C5: a failure of loading, aggregation, the first save or the chart pass
\* ends the run in that failure; the load, the first save and the chart save
\* are each started at most once, and no stage later than the failing
\* step's is reported.
C5_FailurePropagatesNoRetry ==
    /\ attempts.load <= 1 /\ attempts.read <= 1
    /\ attempts.save1 <= 1 /\ attempts.save2 <= 1
    /\ pc = "failed" =>
          /\ outcome.kind \in KindsAt(outcome.at)
          /\ \A i \in 1..Len(reported) : reported[i] <= StageOf(outcome.at)
    /\ outcome.kind \in {"none", "returned", "crash"} => pc # "failed"

C5_Witness ==
    /\ pc = "failed"
    /\ outcome.at = "save_write"
    /\ outcome.kind = "OSError"
    /\ reported = <<1, 2, 3>>
    /\ attempts = [load |-> 1, read |-> 1, save1 |-> 1, save2 |-> 1]

\* where the run is, or was when it failed or crashed
At == IF pc \in {"failed", "crashed"} THEN outcome.at ELSE pc

\* C6 as stated: at every point of a run, crash or failure included, the
\* destination file is not created (or is as it was), or holds all tables
\* without charts, or holds all tables with charts.
C6_ThreeFileStates ==
    \/ Untouched(outputFile)
    \/ outputFile.st = "book" /\ outputFile.tables = TableIds

\* C6 as amended: the destination is not touched before the writer is
\* opened; while the writer is open, after a failed table write and during
\* the second save it may be empty or hold part of the tables; between the
\* end of the first save and the start of the second, crash or failure
\* included, it holds all tables without charts; after the second save it
\* holds all tables and the charts.
C6_FileStatesByPhase ==
    /\ At \in {"progress1", "load", "progress2", "aggregate", "progress3", "open_writer"}
          => Untouched(outputFile)
    /\ At \in {"write", "close_writer", "save_write"}
          => outputFile.st \in {"empty", "book"} /\ outputFile.charts = {}
    /\ At \in {"load_workbook", "chart", "save_open"}
          => outputFile = SavedBook(TableIds, {})
    /\ At \in {"progress4", "progress5", "progress6"}
          => outputFile = SavedBook(TableIds, wb.charts)

C6_Witness ==
    /\ pc = "crashed"
    /\ outcome.at = "chart"
    /\ outputFile = SavedBook(TableIds, {})

(***************************************************************************)
(* salesperson_totals applied to drawn row subsets                         *)
(***************************************************************************)
TotalsRows ==
    { CleanRow(RawRow(<<2024, 12>>, sm, 1, 0, cpi, 0, "NO", "NO")) :
        sm \in {"A", "B", NoneStr}, cpi \in {-1, 0, 2, NaN} }

InitTotals ==
    /\ call \in { [fn |-> "salesperson_totals", table |-> t, result |-> <<>>, done |-> FALSE] :
                    t \in SeqsUpTo(TotalsRows, MaxRows) }
    /\ inputFile = NoFile
    /\ outputFile = AbsentFile
    /\ callback = "none"
    /\ pc = "idle"
    /\ reported = <<>>
    /\ callback_calls = <<>>
    /\ outcome = NoOutcome
    /\ attempts = NoAttempts
    /\ rdf = <<>>
    /\ agg = NoAgg
    /\ book = {}
    /\ wb = NoWorkbook
    /\ AppIdle

ApplySalespersonTotals ==
    /\ call.fn = "salesperson_totals"
    /\ ~call.done
    /\ \E totals \in salesperson_totals(call.table, "cpi") :
           call' = [call EXCEPT !.result = totals, !.done = TRUE]
    /\ UNCHANGED <<inputFile, outputFile, callback, pc, reported, callback_calls,
                   outcome, attempts, rdf, agg, book, wb>>
    /\ UNCHANGED <<df, columns, history, redo_stack, selected_index,
                   new_entry_mode, filter_options, tree, ui, dialog, lastOp,
                   fg, input_file, Figure, commands, others>>

NextTotals == ApplySalespersonTotals

SpecTotals == InitTotals /\ [][NextTotals]_vars

RECURSIVE SumTotals(_)
SumTotals(s) == IF s = <<>> THEN 0 ELSE Head(s).total + SumTotals(Tail(s))

\* C10 as stated: the per-salesperson totals add up to the sum of the value
\* column over all rows of the subset, rows without a salesperson included.
C10_TotalsSumAllRows ==
    call.done => SumTotals(call.result) = SumCol(call.table, "cpi")

\* C10 as amended: the per-salesperson totals add up to the sum of the value
\* column over the rows of the subset whose salesperson is not missing.
C10_TotalsSumKeyedRows ==
    call.done =>
        SumTotals(call.result)
          = SumCol(SelectSeq(call.table, LAMBDA r : r.sm # NoneStr), "cpi")

C10_Witness ==
    /\ call.done
    /\ Len(call.result) = 1
    /\ Len(call.table) >= 3
    /\ \E i \in 1..Len(call.table) : call.table[i].sm = NoneStr /\ call.table[i].cpi = 2
    /\ \E i, j \in 1..Len(call.table) :
          i # j /\ call.table[i].sm = "A" /\ call.table[j].sm = "A"
          /\ call.table[i].cpi = 2 /\ call.table[j].cpi = -1
    /\ call.result[1].total = 1

(***************************************************************************)
(* data_entry.SalesEntryApp: helpers                                       *)
(***************************************************************************)
\* lines 1507-1518: Decimal.quantize(0.01, ROUND_HALF_UP) of a value given
\* in thousandths, as hundredths
normalise_currency_value(m) ==
    IF m = NaN THEN NaN
    ELSE IF m >= 0 THEN (m + 5) \div 10 ELSE 0 - ((5 - m) \div 10)

\* What the user has typed into the form: the three dates (NaT: blank,
\* BadDate: a text no format parses), the texts, amount and cps in
\* thousandths (Blank: nothing typed, NaN: a text that is not a number; for
\* cps NaN stands for both) and the discount in whole percent (NaN: blank).
Form(request, issue, delivery, sm, customer, definition, amount, cps, discount, fc, inv) ==
    [request |-> request, issue |-> issue, delivery |-> delivery, sm |-> sm,
     customer |-> customer, definition |-> definition, amount |-> amount,
     cps |-> cps, discount |-> discount, fc |-> fc, inv |-> inv]

BadDate == <<-1, -1>>    \* a date text no format parses
Blank == -9998           \* an entry with nothing typed into it

\* lines 1578-1586: _parse_float of the Amount entry
amount_raw(f) == IF f.amount = Blank THEN NaN ELSE f.amount

\* lines 1639-1711: the errors _collect_form_data reports.  The dates are
\* parsed only when the checks before them found nothing (lines 1681-1682).
form_errors(f) ==
    LET amount_decimal == normalise_currency_value(amount_raw(f))
        discount_percent_value == IF f.discount = NaN THEN 0 ELSE f.discount
        before_dates ==
                (IF f.request = NaT THEN {"Date of Request bos birakilamaz"} ELSE {})
           \cup (IF f.issue = NaT THEN {"Date of Issue bos birakilamaz"} ELSE {})
           \cup (IF f.sm = "" THEN {"Sales Man bos birakilamaz"} ELSE {})
           \cup (IF f.customer = "" THEN {"Customer Name bos birakilamaz"} ELSE {})
           \cup (IF f.definition = "" THEN {"Definition bos birakilamaz"} ELSE {})
           \cup (IF f.amount = Blank THEN {"Amount bos birakilamaz"} ELSE {})
           \cup (IF f.fc = "" THEN {"QI Forecast bos birakilamaz"} ELSE {})
           \cup (IF f.inv = "" THEN {"Invoiced bos birakilamaz"} ELSE {})
           \cup (IF amount_decimal = NaN THEN {"Gecerli bir tutar girin"} ELSE {})
           \cup (IF discount_percent_value < 0 THEN {"Indirim yuzdesi negatif olamaz"} ELSE {})
           \cup (IF discount_percent_value > 100 THEN {"Indirim 100%'u asamaz"} ELSE {})
        dates ==
                (IF f.request = BadDate THEN {"Tarih formati hatali: Date of Request"} ELSE {})
           \cup (IF f.issue = BadDate THEN {"Tarih formati hatali: Date of Issue"} ELSE {})
           \cup (IF f.delivery = BadDate THEN {"Tarih formati hatali: Date of Delivery"} ELSE {})
    IN IF before_dates # {} THEN before_dates ELSE dates

\* lines 1684-1711: the record _collect_form_data returns for a valid form
collect_form_data_CpiIsAmount(f) ==
    LET amount_decimal == normalise_currency_value(amount_raw(f))
        cps_decimal == IF f.cps = NaN THEN 0 ELSE normalise_currency_value(f.cps)
        discount_percent_value == IF f.discount = NaN THEN 0 ELSE f.discount
        discount_fraction == Max(0, Min(discount_percent_value, 100))
    IN RawRow(f.issue, f.sm, amount_decimal, discount_fraction, amount_decimal,
              cps_decimal,
              IF f.fc # "" THEN StripUpper(f.fc) ELSE "NO",
              IF f.inv # "" THEN StripUpper(f.inv) ELSE "NO")

collect_form_data(f) ==
    LET amount_decimal == normalise_currency_value(amount_raw(f))
        cps_decimal == IF f.cps = NaN THEN 0 ELSE normalise_currency_value(f.cps)
        discount_percent_value == IF f.discount = NaN THEN 0 ELSE f.discount
        discount_fraction == Max(0, Min(discount_percent_value, 100))
        cpi_total == amount_decimal - cps_decimal
    IN RawRow(f.issue, f.sm, amount_decimal, discount_fraction, cpi_total,
              cps_decimal,
              IF f.fc # "" THEN StripUpper(f.fc) ELSE "NO",
              IF f.inv # "" THEN StripUpper(f.inv) ELSE "NO")

\* lines 1246-1267: _normalise_discount_values on one row
normalise_discount_row(r) ==
    IF r.disc = NaN THEN r
    ELSE LET fraction ==
                 IF r.disc > 100
                 THEN IF r.amount # NaN /\ r.amount # 0
                      THEN (r.disc * 100) \div r.amount
                      ELSE r.disc \div 100
                 ELSE r.disc
         IN [r EXCEPT !.disc = Max(0, Min(fraction, 100))]

normalise_discount_values(rows) ==
    [i \in 1..Len(rows) |-> normalise_discount_row(rows[i])]

\* lines 1225-1233: the columns of self.df after load_data
loaded_columns(cols) ==
    LET renamed == IF "PO No" \in cols /\ "PTD PO No" \notin cols
                   THEN (cols \ {"PO No"}) \cup {"PTD PO No"} ELSE cols
        added == renamed \cup AppColumnSet
    IN added \ {c \in added : c \notin AppColumnSet}

\* lines 438-442: _ensure_excel_file
ensure_excel_file(f) ==
    IF f.exists THEN f ELSE File(TRUE, TRUE, AppColumnSet, <<>>)

\* A row of self.df carries its index label next to its cells
Labelled(r, k) == [x \in DOMAIN r \cup {"label"} |-> IF x = "label" THEN k ELSE r[x]]
Unlabelled(r) == [x \in DOMAIN r \ {"label"} |-> r[x]]

\* the rows under the default RangeIndex 0..n-1: what pd.read_excel,
\* reset_index(drop=True) and concat(ignore_index=True) return
RangeIndex(rows) ==
    IF rows = <<>> THEN <<>> ELSE [i \in 1..Len(rows) |-> Labelled(rows[i], i - 1)]

\* the cells of a table without its index (to_excel(index=False))
Values(d) == IF d = <<>> THEN <<>> ELSE [i \in 1..Len(d) |-> Unlabelled(d[i])]

\* lines 1385-1400
get_filtered_dataframe(d, opts) ==
    IF opts.salesman # "" THEN SelectSeq(d, LAMBDA r : r.sm = opts.salesman) ELSE d

\* lines 1335-1367: the Treeview after update_table(view); an item carries
\* its display number and the row it shows
update_table(view, tr) ==
    IF view = <<>>
    THEN [tr EXCEPT !.items = <<>>, !.selection = 0]
    ELSE LET total == Max(1, (Len(view) + PAGE_SIZE - 1) \div PAGE_SIZE)
             current == Min(tr.current_page, total)
             start == (current - 1) * PAGE_SIZE
             end == Min(start + PAGE_SIZE, Len(view))
         IN [items |-> [k \in 1..(end - start) |->
                           [idx |-> start + k, row |-> Unlabelled(view[start + k])]],
             selection |-> 0,
             current_page |-> current,
             total_pages |-> total]

\* lines 1402-1404
apply_filters(d, opts, tr) ==
    update_table(get_filtered_dataframe(d, opts), [tr EXCEPT !.current_page = 1])

\* lines 929-931: _update_status on the foreground thread
update_status(text) == [ui EXCEPT !.status = text, !.writer = "fg"]


\* DataFrame.to_excel(DATA_FILE, index=False): what a completed write
\* leaves on disk
to_excel(d, cols) == File(TRUE, TRUE, cols, Values(d))

\* lines 1239-1244: save_current_dataframe.  Opening the file for writing
\* is refused (the old file stays) or succeeds; the write then completes or
\* breaks off (a truncated file stays).  The exception is caught and shown
\* in a message box, which waits for the user.
OpenResults == {"opened", "refused"}
WriteResults == {"ok", "broken"}

push_history_Unbounded(h, d) == Append(h, d)

\* lines 933-938
push_history(h, d) ==
    LET appended == Append(h, d)
    IN IF Len(appended) > HISTORY_LIMIT
       THEN SubSeq(appended, Len(appended) - HISTORY_LIMIT + 1, Len(appended))
       ELSE appended

(***************************************************************************)
(* data_entry.SalesEntryApp: event handlers (foreground thread)            *)
(***************************************************************************)
\* what the user may have typed when a handler reads the form
Forms ==
    { Form(<<2025, 1>>, <<2025, 1>>, <<2025, 3>>, "B", "X", "D", 2000, 500, 10, "NO", "NO"),
      Form(<<2024, 12>>, <<2024, 12>>, NaT, "A", "X", "", NaN, NaN, 0, "NO", "NO") }

RowA == collect_form_data(Form(<<2024, 12>>, <<2024, 12>>, NaT, "A", "X", "D",
                               1005, NaN, 0, "YES", "YES"))
RowB == collect_form_data(Form(<<2025, 1>>, <<2025, 1>>, <<2025, 3>>, "B", "X", "D",
                               2000, 500, 10, "NO", "NO"))

\* a row written by another program: Total Discount holds 50, not a fraction
RowD == RawRow(<<2024, 12>>, "A", 100000, 5000, 80000, 20000, "YES", "YES")

\* files the user can pick in the "open file" dialog
ExternalFiles ==
    { File(TRUE, TRUE, RequiredSet \cup AppColumnSet, <<RowD>>),
      CorruptFile }

\* the file at DATA_FILE when the application starts
InitFiles ==
    { NoFile,
      File(TRUE, TRUE, AppColumnSet, <<RowA>>) }

FilterChoices == {"", "B"}

\* A message box waits until the user closes it and holds the grab: no
\* command of the main window runs while one is open, and a box opened
\* while another waits is closed before it.  `dialog` holds the open boxes,
\* the newest last; `then` names the handler that goes on when its box is
\* closed.
MessageBox(kind, text, then) ==
    [kind |-> kind, text |-> text, detail |-> <<>>, thread |-> "fg", then |-> then]
WorkerBox(kind, text, detail) ==
    [kind |-> kind, text |-> text, detail |-> detail, thread |-> "worker",
     then |-> "destroy"]
\* the box of a worker whose run was started while an earlier one ran
OtherBox(kind, text) ==
    [kind |-> kind, text |-> text, detail |-> <<>>, thread |-> "other",
     then |-> "destroy"]
TopBox == Last(dialog)

\* messagebox.showinfo / showwarning / showerror on the foreground thread
show(kind, text, then) == Append(dialog, MessageBox(kind, text, then))

\* the foreground thread is in the main loop and no message box is open
UserInput == fg = Ready /\ dialog = <<>>

\* the user gives a command of the main window
Command ==
    /\ UserInput
    /\ commands # 0
    /\ commands' = IF commands = None THEN None ELSE commands - 1

\* what a handler of the foreground thread leaves alone of the worker
WorkerUnchanged ==
    UNCHANGED <<outputFile, callback, pc, reported, callback_calls, outcome,
                attempts, rdf, agg, book, wb, input_file, Figure, others, call>>

StatusOf(u, text) == [u EXCEPT !.status = text, !.writer = "fg"]

\* a handler that shows a message box and returns when it is closed
Rejected(kind, text) ==
    /\ dialog' = show(kind, text, "none")
    /\ UNCHANGED <<inputFile, df, columns, history, redo_stack, selected_index,
                   new_entry_mode, filter_options, tree, ui, lastOp, fg>>

\* a handler whose question the user answers with "no"
Declined ==
    UNCHANGED <<inputFile, df, columns, history, redo_stack, selected_index,
                new_entry_mode, filter_options, tree, ui, dialog, lastOp, fg>>

\* lines 1216-1237: load_data reading the workbook `file` at DATA_FILE,
\* with the status bar as `u` and the open boxes as `boxes` before it;
\* `failed` names the handler when the read raises
LoadData(file, u, boxes, failed) ==
    IF file.exists /\ ~file.readable
    THEN /\ inputFile' = file
         /\ dialog' = Append(boxes, MessageBox("error", "Veri yuklenemedi", "none"))
         /\ ui' = u
         /\ lastOp' = failed
         /\ UNCHANGED <<df, columns, history, redo_stack, tree>>
    ELSE LET f == ensure_excel_file(file)
             d == normalise_discount_values(RangeIndex(f.rows))
         IN /\ inputFile' = f
            /\ df' = d
            /\ columns' = loaded_columns(f.cols)
            /\ history' = <<>>
            /\ redo_stack' = <<>>
            /\ tree' = apply_filters(d, filter_options, tree)
            /\ ui' = StatusOf(u, "Veri yuklendi")
            /\ lastOp' = "load_data"
            /\ dialog' = boxes

\* lines 1216-1237
load_data ==
    /\ Command
    /\ LoadData(inputFile, ui, dialog, lastOp)
    /\ UNCHANGED <<selected_index, new_entry_mode, filter_options, fg>>
    /\ UNCHANGED <<outputFile, callback, pc, reported, callback_calls, outcome,
                   attempts, rdf, agg, book, wb, input_file, Figure, others, call>>

\* lines 1289-1296: DATA_FILE is rebound to the chosen file, then load_data.
\* A worker that has not yet read its input keeps the path it was given,
\* where the file is left as it is.
open_existing_file ==
    /\ Command
    /\ \E chosen \in ExternalFiles :
         LoadData(chosen, ui, dialog, "open_existing_file")
    /\ input_file' = IF input_file.same /\ pc \in {"progress1", "status1", "load"}
                     THEN LeftBehind(inputFile)
                     ELSE input_file
    /\ UNCHANGED <<selected_index, new_entry_mode, filter_options, fg>>
    /\ UNCHANGED <<outputFile, callback, pc, reported, callback_calls, outcome,
                   attempts, rdf, agg, book, wb, Figure, others, call>>

\* lines 981-985, with reset_form(preserve_new_mode=True)
start_new_entry_KeepsSelection ==
    /\ Command
    /\ new_entry_mode' = TRUE
    /\ selected_index' = selected_index
    /\ tree' = tree
    /\ ui' = update_status("Yeni kayit icin form hazirlandi")
    /\ UNCHANGED <<inputFile, df, columns, history, redo_stack, filter_options,
                   dialog, lastOp, fg>>
    /\ WorkerUnchanged

start_new_entry ==
    /\ Command
    /\ new_entry_mode' = TRUE
    /\ selected_index' = None
    /\ tree' = [tree EXCEPT !.selection = 0]
    /\ ui' = update_status("Yeni kayit icin form hazirlandi")
    /\ UNCHANGED <<inputFile, df, columns, history, redo_stack, filter_options,
                   dialog, lastOp, fg>>
    /\ WorkerUnchanged

\* lines 1407-1438
reset_form ==
    /\ Command
    /\ selected_index' = None
    /\ tree' = [tree EXCEPT !.selection = 0]
    /\ new_entry_mode' = FALSE
    /\ ui' = update_status("Form temizlendi")
    /\ UNCHANGED <<inputFile, df, columns, history, redo_stack, filter_options,
                   dialog, lastOp, fg>>
    /\ WorkerUnchanged

\* lines 1440-1505: a row of the table is selected and loaded into the form
populate_form_from_selection ==
    /\ Command
    /\ \E i \in 1..Len(tree.items) :
         /\ tree' = [tree EXCEPT !.selection = i]
         /\ selected_index' = tree.items[i].idx - 1
    /\ new_entry_mode' = FALSE
    /\ ui' = update_status("Kayit duzenleme icin yuklendi")
    /\ UNCHANGED <<inputFile, df, columns, history, redo_stack, filter_options,
                   dialog, lastOp, fg>>
    /\ WorkerUnchanged

\* the arrangements of the rows of s
RECURSIVE Orderings(_)
Orderings(s) ==
    IF s = <<>> THEN {<<>>}
    ELSE UNION { {<<s[i]>> \o t : t \in Orderings(SubSeq(s, 1, i - 1) \o SubSeq(s, i + 1, Len(s)))} :
                 i \in {j \in 1..Len(s) : \A k \in 1..(j - 1) : s[k] # s[j]} }

\* the place of a salesperson in ascending order, rows without one last
SalesmanRank(r) ==
    IF r.sm \in Range(SalesmanOrder)
    THEN CHOOSE i \in 1..Len(SalesmanOrder) : SalesmanOrder[i] = r.sm
    ELSE Len(SalesmanOrder) + 1

RECURSIVE SortedFrom(_, _)
SortedFrom(view, k) ==
    IF k > Len(SalesmanOrder) + 1 THEN {<<>>}
    ELSE { a \o b : a \in Orderings(SelectSeq(view, LAMBDA r : SalesmanRank(r) = k)),
                     b \in SortedFrom(view, k + 1) }

\* sort_values(by="Sales Man", na_position="last") with the default
\* kind="quicksort", which is not stable: the arrangements of the view in
\* ascending order of the salesperson, rows of one salesperson in any order
sort_values_by_salesman(view) == SortedFrom(view, 1)

\* lines 1379-1383: a click on the "Sales Man" column heading
sort_by_column ==
    /\ Command
    /\ \E sorted \in sort_values_by_salesman(Values(get_filtered_dataframe(df, filter_options))) :
         tree' = update_table(sorted, tree)
    /\ UNCHANGED <<inputFile, df, columns, history, redo_stack, selected_index,
                   new_entry_mode, filter_options, ui, dialog, lastOp, fg>>
    /\ WorkerUnchanged

\* lines 1369-1372
next_page ==
    /\ Command
    /\ tree' = IF tree.current_page < tree.total_pages
               THEN update_table(get_filtered_dataframe(df, filter_options),
                                 [tree EXCEPT !.current_page = @ + 1])
               ELSE tree
    /\ UNCHANGED <<inputFile, df, columns, history, redo_stack, selected_index,
                   new_entry_mode, filter_options, ui, dialog, lastOp, fg>>
    /\ WorkerUnchanged

\* lines 1374-1377
prev_page ==
    /\ Command
    /\ tree' = IF tree.current_page > 1
               THEN update_table(get_filtered_dataframe(df, filter_options),
                                 [tree EXCEPT !.current_page = @ - 1])
               ELSE tree
    /\ UNCHANGED <<inputFile, df, columns, history, redo_stack, selected_index,
                   new_entry_mode, filter_options, ui, dialog, lastOp, fg>>
    /\ WorkerUnchanged

\* lines 1854-1862: the filter window's apply
set_filter ==
    /\ Command
    /\ \E s \in FilterChoices :
         /\ filter_options' = [salesman |-> s]
         /\ tree' = apply_filters(df, [salesman |-> s], tree)
    /\ UNCHANGED <<inputFile, df, columns, history, redo_stack, selected_index,
                   new_entry_mode, ui, dialog, lastOp, fg>>
    /\ WorkerUnchanged

\* lines 1172-1187: "Kaydet" of the sales representative window; the
\* filter's salesperson is dropped when the list no longer holds it, and
\* the table is not refreshed
save_and_close ==
    /\ Command
    /\ \E listed \in BOOLEAN :
         filter_options' = IF filter_options.salesman # "" /\ ~listed
                           THEN [filter_options EXCEPT !.salesman = ""]
                           ELSE filter_options
    /\ UNCHANGED <<inputFile, df, columns, history, redo_stack, selected_index,
                   new_entry_mode, tree, ui, dialog, lastOp, fg>>
    /\ WorkerUnchanged

\* lines 1269-1281: the table written to a file of the user's choice
save_as ==
    /\ Command
    /\ \E chosen \in BOOLEAN, written \in BOOLEAN :
         /\ ui' = IF chosen /\ written
                  THEN update_status("Dosya kaydedildi: dosya") ELSE ui
         /\ dialog' = IF chosen /\ ~written
                      THEN show("error", "Hata", "none") ELSE dialog
    /\ UNCHANGED <<inputFile, df, columns, history, redo_stack, selected_index,
                   new_entry_mode, filter_options, tree, lastOp, fg>>
    /\ WorkerUnchanged

\* lines 1301-1314: the filtered view written to a file of the user's choice
export_filtered_data ==
    /\ Command
    /\ \E chosen \in BOOLEAN, written \in BOOLEAN :
         /\ ui' = IF chosen /\ written
                  THEN update_status("Disa aktarildi: dosya") ELSE ui
         /\ dialog' = IF chosen /\ ~written
                      THEN show("error", "Disa Aktarim Hatasi", "none") ELSE dialog
    /\ UNCHANGED <<inputFile, df, columns, history, redo_stack, selected_index,
                   new_entry_mode, filter_options, tree, lastOp, fg>>
    /\ WorkerUnchanged

\* lines 1795-1803
copy_selected_row ==
    /\ Command
    /\ ui' = IF tree.selection # 0
             THEN update_status("Satir panoya kopyalandi") ELSE ui
    /\ UNCHANGED <<inputFile, df, columns, history, redo_stack, selected_index,
                   new_entry_mode, filter_options, tree, dialog, lastOp, fg>>
    /\ WorkerUnchanged

\* lines 1320-1332: the backup timer.  It runs whenever the foreground
\* thread is in an event loop, also the one of a waiting message box, and
\* is set again when perform_backup returns.
perform_backup ==
    /\ fg.at # "to_excel"
    /\ \A i \in 1..Len(dialog) : dialog[i].text # "Yedekleme Hatasi"
    /\ IF df = <<>>
       THEN UNCHANGED <<ui, dialog>>
       ELSE \E written \in BOOLEAN :
              /\ ui' = IF written THEN update_status("Yedek olusturuldu") ELSE ui
              /\ dialog' = IF written THEN dialog
                           ELSE show("warning", "Yedekleme Hatasi", "none")
    /\ UNCHANGED <<inputFile, df, columns, history, redo_stack, selected_index,
                   new_entry_mode, filter_options, tree, lastOp, fg>>
    /\ WorkerUnchanged
    /\ UNCHANGED commands

\* what the handler `name` reports and shows at its end, with the open
\* boxes as `boxes` before it
HandlerEnd(name, boxes) ==
    CASE name = "save_data" ->
           [dialog |-> Append(boxes, MessageBox("info", "Kayit eklendi", "none")),
            status |-> "Form temizlendi"]
      [] name = "update_data" ->
           [dialog |-> Append(boxes, MessageBox("info", "Guncellendi", "none")),
            status |-> "Form temizlendi"]
      [] name = "delete_data" ->
           [dialog |-> boxes, status |-> "Kayit silindi"]
      [] name = "undo_last_change" ->
           [dialog |-> boxes, status |-> "Son degisiklik geri alindi"]
      [] OTHER ->
           [dialog |-> boxes, status |-> "Ileri alma islemi uygulandi"]

\* The rest of the handler `op` once save_current_dataframe has returned,
\* with the status bar as `u`, the data file as `file` and the open boxes
\* as `boxes` then: the menu command ends there, create_new_file goes on
\* with load_data, the others with apply_filters, reset_form, their status
\* and their message box.
AfterSave(op, u, file, boxes) ==
    /\ fg' = Ready
    /\ IF op = "save_current_dataframe"
       THEN /\ inputFile' = file
            /\ ui' = u
            /\ dialog' = boxes
            /\ UNCHANGED <<df, columns, history, redo_stack, selected_index,
                           new_entry_mode, tree, lastOp>>
       ELSE IF op = "create_new_file"
       THEN /\ LoadData(file, u, boxes, lastOp)
            /\ UNCHANGED <<selected_index, new_entry_mode>>
       ELSE /\ inputFile' = file
            /\ tree' = apply_filters(df, filter_options, tree)
            /\ selected_index' = None
            /\ new_entry_mode' = FALSE
            /\ ui' = StatusOf(u, HandlerEnd(op, boxes).status)
            /\ dialog' = HandlerEnd(op, boxes).dialog
            /\ UNCHANGED <<df, columns, history, redo_stack, lastOp>>
    /\ UNCHANGED filter_options

\* What the handlers share once the table has its new value d: they call
\* save_current_dataframe.  When to_excel cannot open the file the error
\* box is shown and waits; otherwise the file is open for writing and the
\* foreground thread is inside to_excel.
Persist(name, d, result) ==
    /\ df' = d
    /\ lastOp' = name
    /\ IF result = "refused"
       THEN /\ inputFile' = inputFile
            /\ dialog' = show("error", "Kaydetme Hatasi", name)
            /\ fg' = fg
       ELSE /\ inputFile' = BeingWritten
            /\ dialog' = dialog
            /\ fg' = [at |-> "to_excel", op |-> name]
    /\ UNCHANGED <<filter_options, tree, selected_index, new_entry_mode, ui>>

\* lines 1239-1244 as the command of the menu entry "Kaydet" (line 468)
save_current_dataframe ==
    /\ Command
    /\ \E result \in OpenResults : Persist("save_current_dataframe", df, result)
    /\ UNCHANGED <<columns, history, redo_stack>>
    /\ WorkerUnchanged

\* lines 1241-1244: to_excel completes, and the handler that called
\* save_current_dataframe runs to its end, or it breaks off, and the error
\* box is shown and waits
to_excel_returns ==
    /\ fg.at = "to_excel"
    /\ \E result \in WriteResults :
         IF result = "ok"
         THEN AfterSave(fg.op, update_status("Dosya kaydedildi"),
                        to_excel(df, columns), dialog)
         ELSE /\ inputFile' = CorruptFile
              /\ dialog' = show("error", "Kaydetme Hatasi", fg.op)
              /\ fg' = Ready
              /\ UNCHANGED <<df, columns, history, redo_stack, selected_index,
                             new_entry_mode, filter_options, tree, ui, lastOp>>
    /\ WorkerUnchanged
    /\ UNCHANGED commands

\* line 1244: the user closes the "Kaydetme Hatasi" box and the handler
\* that called save_current_dataframe runs to its end
save_error_closed ==
    /\ dialog # <<>>
    /\ TopBox.thread = "fg"
    /\ TopBox.then \notin {"none", "generate_report", "another_report"}
    /\ AfterSave(TopBox.then, ui, inputFile, Front(dialog))
    /\ WorkerUnchanged
    /\ UNCHANGED commands

\* the user closes a message box after which its handler returns
message_closed ==
    /\ dialog # <<>>
    /\ TopBox.thread = "fg"
    /\ TopBox.then = "none"
    /\ dialog' = Front(dialog)
    /\ UNCHANGED <<inputFile, df, columns, history, redo_stack, selected_index,
                   new_entry_mode, filter_options, tree, ui, lastOp, fg>>
    /\ WorkerUnchanged
    /\ UNCHANGED commands

\* lines 1283-1287
create_new_file ==
    /\ Command
    /\ \E confirm \in BOOLEAN, result \in OpenResults :
         IF ~confirm
         THEN Declined /\ UNCHANGED columns
         ELSE /\ columns' = AppColumnSet
              /\ Persist("create_new_file", <<>>, result)
              /\ UNCHANGED <<history, redo_stack>>
    /\ WorkerUnchanged

\* lines 1713-1746
save_data(max_rows, max_history) ==
    /\ Command
    /\ Len(df) < max_rows
    /\ Len(history) < max_history
    /\ \E f \in Forms, confirm \in BOOLEAN, result \in OpenResults :
         IF ~new_entry_mode
         THEN Rejected("warning", "Yeni Kayit Gerekli")
         ELSE IF selected_index # None
         THEN Rejected("warning", "Yeni Kayit")
         ELSE IF form_errors(f) # {}
         THEN Rejected("error", "Gecersiz Veri")
         ELSE IF ~confirm
         THEN Declined
         ELSE /\ history' = push_history(history, df)
              /\ redo_stack' = <<>>
              /\ Persist("save_data",
                         RangeIndex(Append(df, collect_form_data(f))), result)
    /\ UNCHANGED columns
    /\ WorkerUnchanged

\* line 1765: df.loc[selected_index, record.index] = record.values.  The
\* row labelled selected_index takes the record; without such a row, one is
\* added under that label.
loc_setitem(d, label, record) ==
    IF \E p \in 1..Len(d) : d[p].label = label
    THEN [p \in 1..Len(d) |-> IF d[p].label = label THEN Labelled(record, label) ELSE d[p]]
    ELSE Append(d, Labelled(record, label))

\* lines 1748-1770
update_data(max_rows, max_history) ==
    /\ Command
    /\ Len(df) <= max_rows
    /\ \/ Len(df) < max_rows
       \/ selected_index = None
       \/ \E p \in 1..Len(df) : df[p].label = selected_index
    /\ Len(history) < max_history
    /\ \E f \in Forms, confirm \in BOOLEAN, result \in OpenResults :
         IF selected_index = None
         THEN Rejected("warning", "Secim Yok")
         ELSE IF form_errors(f) # {}
         THEN Rejected("error", "Gecersiz Veri")
         ELSE IF ~confirm
         THEN Declined
         ELSE /\ history' = push_history(history, df)
              /\ redo_stack' = <<>>
              /\ Persist("update_data",
                         loc_setitem(df, selected_index, collect_form_data(f)),
                         result)
    /\ UNCHANGED columns
    /\ WorkerUnchanged

RemoveAt(d, i) == SubSeq(d, 1, i - 1) \o SubSeq(d, i + 1, Len(d))

\* lines 1772-1793.  df.index[index] raises IndexError when the table has
\* fewer rows than the selected entry's number; _push_history has run by
\* then, and the exception ends the handler.
delete_data(max_history) ==
    /\ Command
    /\ Len(history) < max_history
    /\ \E confirm \in BOOLEAN, result \in OpenResults :
         IF tree.selection = 0
         THEN Rejected("warning", "Secim Yok")
         ELSE IF ~confirm
         THEN Declined
         ELSE LET index == tree.items[tree.selection].idx - 1
              IN /\ history' = push_history(history, df)
                 /\ redo_stack' = <<>>
                 /\ IF index < Len(df)
                    THEN Persist("delete_data",
                                 RangeIndex(RemoveAt(df, index + 1)), result)
                    ELSE UNCHANGED <<inputFile, df, selected_index, new_entry_mode,
                                     filter_options, tree, ui, dialog, lastOp, fg>>
    /\ UNCHANGED columns
    /\ WorkerUnchanged

undo_last_change_KeepsEntry ==
    /\ Command
    /\ \E result \in OpenResults :
         IF history = <<>>
         THEN Rejected("info", "Geri alinacak yok")
         ELSE /\ redo_stack' = Append(redo_stack, df)
              /\ history' = history
              /\ Persist("undo_last_change", history[Len(history)], result)
    /\ UNCHANGED columns
    /\ WorkerUnchanged

\* lines 987-997
undo_last_change ==
    /\ Command
    /\ \E result \in OpenResults :
         IF history = <<>>
         THEN Rejected("info", "Geri alinacak yok")
         ELSE /\ redo_stack' = Append(redo_stack, df)
              /\ history' = SubSeq(history, 1, Len(history) - 1)
              /\ Persist("undo_last_change", history[Len(history)], result)
    /\ UNCHANGED columns
    /\ WorkerUnchanged

\* lines 999-1011
redo_last_change ==
    /\ Command
    /\ \E result \in OpenResults :
         IF redo_stack = <<>>
         THEN Rejected("info", "Ileri alinacak yok")
         ELSE /\ history' = push_history(history, df)
              /\ redo_stack' = SubSeq(redo_stack, 1, Len(redo_stack) - 1)
              /\ Persist("redo_last_change", redo_stack[Len(redo_stack)], result)
    /\ UNCHANGED columns
    /\ WorkerUnchanged

(***************************************************************************)
(* data_entry.SalesEntryApp.generate_report and its worker thread          *)
(***************************************************************************)
\* lines 2190-2195, 2215: the progress window is created and the worker
\* thread started
start_thread ==
    /\ pc' = "progress1"
    /\ callback' = "app"
    /\ outcome' = NoOutcome
    /\ ui' = [ui EXCEPT !.value = 0, !.window = TRUE, !.writer = "fg"]
    /\ fg' = Ready

\* lines 2183-2188: with an empty view, or without matplotlib, a message
\* box is shown and waits; `then` names what goes on when it is closed
report_boxes(then) ==
    IF get_filtered_dataframe(df, filter_options) = <<>>
    THEN show("info", "Raporlanacak veri bulunamadi", then)
    ELSE IF ~Figure
    THEN show("error", "Eksik Bilesen", then)
    ELSE dialog

\* lines 2177-2215: the click.  The worker's input path is fixed here.  The
\* run of the first click is followed step by step; a click while its
\* worker still runs starts a further worker, of which the steps that
\* touch what the two share are followed.
generate_report ==
    /\ Command
    /\ dialog' = report_boxes(IF pc \in {"idle", "worker_end"}
                              THEN "generate_report" ELSE "another_report")
    /\ IF pc \in {"idle", "worker_end"}
       THEN /\ input_file' = DATA_FILE
            /\ outputFile' = AbsentFile
            /\ IF dialog' = dialog
               THEN start_thread
               ELSE UNCHANGED <<pc, callback, outcome, ui, fg>>
            /\ UNCHANGED others
       ELSE /\ others < MaxOtherRuns
            /\ others' = IF dialog' = dialog THEN others + 1 ELSE others
            /\ UNCHANGED <<input_file, outputFile, pc, callback, outcome, ui, fg>>
    /\ UNCHANGED <<inputFile, reported, callback_calls, attempts, rdf, agg, book, wb,
                   Figure, call>>
    /\ UNCHANGED <<df, columns, history, redo_stack, selected_index,
                   new_entry_mode, filter_options, tree, lastOp>>

\* lines 2183-2188 return: the user closes the message box of
\* generate_report, which goes on to start the worker
report_dialog_closed ==
    /\ dialog # <<>>
    /\ TopBox.thread = "fg"
    /\ TopBox.then \in {"generate_report", "another_report"}
    /\ dialog' = Front(dialog)
    /\ IF TopBox.then = "generate_report"
       THEN start_thread /\ UNCHANGED others
       ELSE /\ others' = others + 1
            /\ UNCHANGED <<pc, callback, outcome, ui, fg>>
    /\ UNCHANGED <<inputFile, outputFile, reported, callback_calls, attempts, rdf,
                   agg, book, wb, input_file, Figure, commands, call>>
    /\ UNCHANGED <<df, columns, history, redo_stack, selected_index,
                   new_entry_mode, filter_options, tree, lastOp>>

\* the workers of further runs that are not waiting in a message box
OthersRunning ==
    others - Len(SelectSeq(dialog, LAMBDA b : b.thread = "other"))

\* lines 2197-2200 in the worker of a further run: its progress bar is its
\* own, the status line is the one of the application
other_update_progress ==
    /\ OthersRunning > 0
    /\ ui' = [ui EXCEPT !.status = "progress", !.writer = "worker"]
    /\ UNCHANGED <<inputFile, df, columns, history, redo_stack, selected_index,
                   new_entry_mode, filter_options, tree, dialog, lastOp, fg>>
    /\ WorkerUnchanged
    /\ UNCHANGED commands

\* lines 2209-2211 in the worker of a further run: its message box waits
other_worker_box ==
    /\ OthersRunning > 0
    /\ \E box \in {OtherBox("info", "Rapor olusturuldu"),
                   OtherBox("error", "Rapor Hatasi")} :
           dialog' = Append(dialog, box)
    /\ UNCHANGED <<inputFile, df, columns, history, redo_stack, selected_index,
                   new_entry_mode, filter_options, tree, ui, lastOp, fg>>
    /\ WorkerUnchanged
    /\ UNCHANGED commands

\* lines 2212-2213 in the worker of a further run: its box is closed, it
\* destroys its own progress window and ends
other_worker_ends ==
    /\ dialog # <<>>
    /\ TopBox.thread = "other"
    /\ dialog' = Front(dialog)
    /\ others' = others - 1
    /\ UNCHANGED <<inputFile, df, columns, history, redo_stack, selected_index,
                   new_entry_mode, filter_options, tree, ui, lastOp, fg>>
    /\ UNCHANGED <<outputFile, callback, pc, reported, callback_calls, outcome,
                   attempts, rdf, agg, book, wb, input_file, Figure, commands, call>>

\* the user closes the progress window with its close button
close_progress_window ==
    /\ fg.at # "to_excel"
    /\ ui.window
    /\ ui' = [ui EXCEPT !.value = 0, !.window = FALSE, !.writer = "fg"]
    /\ UNCHANGED <<inputFile, df, columns, history, redo_stack, selected_index,
                   new_entry_mode, filter_options, tree, dialog, lastOp, fg>>
    /\ WorkerUnchanged
    /\ UNCHANGED commands

\* lines 2199-2200: progress_window.update_idletasks() and
\* self._update_status(message), after which update_progress and
\* report_progress return
UpdateStatus(step) ==
    /\ pc = StatusPc(step)
    /\ ui' = [ui EXCEPT !.status = "progress", !.writer = "worker"]
    /\ Proceed(step)
    /\ UNCHANGED <<inputFile, outputFile, callback, reported, callback_calls,
                   attempts, rdf, agg, book, wb, input_file, Figure, commands, others, call>>
    /\ UNCHANGED <<df, columns, history, redo_stack, selected_index,
                   new_entry_mode, filter_options, tree, dialog, lastOp, fg>>

update_progress_status == \E step \in 1..total_steps : UpdateStatus(step)

\* the worker's locals after generate_sales_report is left
WorkerReturned ==
    /\ outcome' = NoOutcome
    /\ reported' = <<>>
    /\ callback_calls' = <<>>
    /\ attempts' = NoAttempts
    /\ rdf' = <<>>
    /\ agg' = NoAgg
    /\ book' = {}
    /\ wb' = NoWorkbook
    /\ input_file' = DATA_FILE
    /\ UNCHANGED <<inputFile, outputFile, callback, Figure, commands, others, call>>

\* line 2209: the worker after generate_sales_report returned; the message
\* box waits for the user
WorkerSuccess ==
    /\ pc = "done"
    /\ callback = "app"
    /\ pc' = "success_dialog"
    /\ dialog' = Append(dialog, WorkerBox("info", "Rapor olusturuldu", <<>>))
    /\ WorkerReturned
    /\ UNCHANGED <<df, columns, history, redo_stack, selected_index,
                   new_entry_mode, filter_options, tree, ui, lastOp, fg>>

\* lines 2210-2211: the worker after generate_sales_report raised
WorkerError_ReloadsData ==
    /\ pc = "failed"
    /\ callback = "app"
    /\ pc' = "error_dialog"
    /\ dialog' = Append(dialog, WorkerBox("error", outcome.kind, outcome.detail))
    /\ WorkerReturned
    /\ history' = <<>>
    /\ redo_stack' = <<>>
    /\ selected_index' = None
    /\ UNCHANGED <<df, columns, new_entry_mode, filter_options, tree, ui, lastOp, fg>>

WorkerError ==
    /\ pc = "failed"
    /\ callback = "app"
    /\ pc' = "error_dialog"
    /\ dialog' = Append(dialog, WorkerBox("error", outcome.kind, outcome.detail))
    /\ WorkerReturned
    /\ UNCHANGED <<df, columns, history, redo_stack, selected_index,
                   new_entry_mode, filter_options, tree, ui, lastOp, fg>>

\* lines 2212-2213: the message box is closed and the worker destroys the
\* progress window; destroying a window that is gone does nothing
progress_window_destroy ==
    /\ dialog # <<>>
    /\ TopBox.thread = "worker"
    /\ dialog' = Front(dialog)
    /\ pc' = "worker_end"
    /\ ui' = IF ui.window
             THEN [ui EXCEPT !.value = 0, !.window = FALSE, !.writer = "worker"]
             ELSE ui
    /\ UNCHANGED <<inputFile, outputFile, callback, reported, callback_calls, outcome,
                   attempts, rdf, agg, book, wb, input_file, Figure, commands, others, call>>
    /\ UNCHANGED <<df, columns, history, redo_stack, selected_index,
                   new_entry_mode, filter_options, tree, lastOp, fg>>

\* The state after SalesEntryApp.__init__ (lines 125-165): the data file is
\* created when absent and load_data has run.  `builds` says whether
\* matplotlib could be imported (lines 29-35), `session` how many commands
\* the user gives.
InitWith(files, builds, session) ==
    /\ \E f0 \in files :
         LET f == ensure_excel_file(f0)
             d == normalise_discount_values(RangeIndex(f.rows))
         IN /\ inputFile = f
            /\ df = d
            /\ columns = loaded_columns(f.cols)
            /\ tree = apply_filters(d, [salesman |-> ""],
                         [items |-> <<>>, selection |-> 0,
                          current_page |-> 1, total_pages |-> 1])
    /\ history = <<>>
    /\ redo_stack = <<>>
    /\ selected_index = None
    /\ new_entry_mode = FALSE
    /\ filter_options = [salesman |-> ""]
    /\ ui = [value |-> 0, status |-> "Veri yuklendi", window |-> FALSE, writer |-> "fg"]
    /\ dialog = <<>>
    /\ lastOp = "load_data"
    /\ fg = Ready
    /\ input_file = DATA_FILE
    /\ Figure \in builds
    /\ commands = session
    /\ others = 0
    /\ outputFile = AbsentFile
    /\ callback = "none"
    /\ pc = "idle"
    /\ reported = <<>>
    /\ callback_calls = <<>>
    /\ outcome = NoOutcome
    /\ attempts = NoAttempts
    /\ rdf = <<>>
    /\ agg = NoAgg
    /\ book = {}
    /\ wb = NoWorkbook
    /\ call = NoCall

InitApp == InitWith(InitFiles, BOOLEAN, MaxCommands)

\* the handlers of the foreground thread: the user's commands, the steps
\* that end a wait of one of them, and the backup timer
ForegroundStep ==
    \/ load_data \/ open_existing_file \/ create_new_file
    \/ start_new_entry \/ reset_form
    \/ populate_form_from_selection \/ set_filter \/ save_and_close
    \/ sort_by_column \/ next_page \/ prev_page
    \/ save_data(MaxAppRows, MaxHistory)
    \/ update_data(MaxAppRows, MaxHistory)
    \/ delete_data(MaxHistory)
    \/ save_current_dataframe \/ to_excel_returns \/ save_error_closed
    \/ message_closed
    \/ undo_last_change \/ redo_last_change
    \/ save_as \/ export_filtered_data \/ copy_selected_row
    \/ perform_backup
    \/ generate_report \/ report_dialog_closed \/ close_progress_window

WorkerStep ==
    \/ PipelineStep \/ update_progress_status
    \/ WorkerSuccess \/ WorkerError \/ progress_window_destroy
    \/ other_update_progress \/ other_worker_box \/ other_worker_ends

NextApp == ForegroundStep \/ WorkerStep

SpecApp == InitApp /\ [][NextApp]_vars

(***************************************************************************)
(* Claims about the application                                            *)
(***************************************************************************)
\* C1 as stated: the data file as the application writes it has a header
\* that contains every required column of the report, and a report run
\* started from the application does not fail column validation.
C1_AppFileHasRequiredColumns ==
    /\ inputFile = to_excel(df, columns) => RequiredSet \subseteq inputFile.cols
    /\ (callback = "app" /\ pc = "failed" /\ outcome.at = "load")
          => outcome.kind # "ValueError"

\* C7 as stated: the progress bar value, the status text and the progress
\* window are never written by the worker thread.
C7_UiWrittenOnForeground == ui.writer # "worker"

\* C8: no step of a report run started from the application, the step that
\* handles its failure included, changes the row table, the undo history,
\* the redo stack, the filter options or the selection; and the step that
\* handles a failure shows the text of the exception in an error dialog.
C8_FailedRunLeavesTableAlone ==
    [][ /\ pc' # pc =>
             UNCHANGED <<df, history, redo_stack, filter_options, selected_index>>
        /\ (pc = "failed" /\ pc' = "error_dialog") =>
             /\ dialog' # <<>>
             /\ Last(dialog').kind = "error"
             /\ Last(dialog').text = outcome.kind
             /\ Last(dialog').detail = outcome.detail ]_vars

C8_Witness ==
    /\ pc = "error_dialog"
    /\ dialog # <<>>
    /\ TopBox.kind = "error"
    /\ TopBox.thread = "worker"
    /\ TopBox.text = "ValueError"
    /\ TopBox.detail = <<"Customer DO No", "PO No">>
    /\ df # <<>>
    /\ history # <<>>
    /\ filter_options.salesman = "B"
    /\ selected_index = 0

\* C9 as stated: after save_data, update_data, delete_data, undo_last_change
\* or redo_last_change has completed, the data file holds the rows of the
\* in-memory table, whether or not the write succeeded.
C9_FileEqualsTable ==
    (/\ lastOp \in {"save_data", "update_data", "delete_data",
                     "undo_last_change", "redo_last_change"}
     /\ UserInput)
        => inputFile = to_excel(df, columns)

(***************************************************************************)
(* The aggregate functions applied to drawn tables                         *)
(* (filter_monthly_data, pivot_salesman_monthly, the summary metrics)      *)
(***************************************************************************)
PipelineIdle ==
    /\ inputFile = NoFile
    /\ outputFile = AbsentFile
    /\ callback = "none"
    /\ pc = "idle"
    /\ reported = <<>>
    /\ callback_calls = <<>>
    /\ outcome = NoOutcome
    /\ attempts = NoAttempts
    /\ rdf = <<>>
    /\ agg = NoAgg
    /\ book = {}
    /\ wb = NoWorkbook

OnlyCallChanges ==
    /\ UNCHANGED <<inputFile, outputFile, callback, pc, reported, callback_calls,
                   outcome, attempts, rdf, agg, book, wb>>
    /\ UNCHANGED <<df, columns, history, redo_stack, selected_index,
                   new_entry_mode, filter_options, tree, ui, dialog, lastOp,
                   fg, input_file, Figure, commands, others>>

\* line 190: dropna(subset=["MonthYear", "MonthNumber"])
dropna_month(t) ==
    SelectSeq(t, LAMBDA r : r.MonthYear # NoMonthYear /\ r.MonthNumber # NaN)

\* lines 191-194: the distinct (Year, MonthNumber) group keys of the rows
RECURSIVE MonthKeys(_)
MonthKeys(t) ==
    IF t = <<>> THEN <<>>
    ELSE LET rest == MonthKeys(SubSeq(t, 1, Len(t) - 1))
             k == <<t[Len(t)].Year, t[Len(t)].MonthNumber>>
         IN IF k \in Range(rest) THEN rest ELSE Append(rest, k)

\* line 196: the order of sort_values(["Year", "MonthNumber"])
MonthBefore_NumberOnly(a, b) == a.MonthNumber < b.MonthNumber

MonthBefore(a, b) ==
    \/ a.Year < b.Year
    \/ a.Year = b.Year /\ a.MonthNumber < b.MonthNumber

RECURSIVE InsertMonth(_, _)
InsertMonth(s, x) ==
    IF s = <<>> THEN <<x>>
    ELSE IF MonthBefore(x, Head(s)) THEN <<x>> \o s
    ELSE <<Head(s)>> \o InsertMonth(Tail(s), x)

RECURSIVE SortMonths(_)
SortMonths(s) ==
    IF s = <<>> THEN <<>>
    ELSE InsertMonth(SortMonths(SubSeq(s, 1, Len(s) - 1)), s[Len(s)])

\* lines 186-199
filter_monthly_data(t, column) ==
    LET kept == dropna_month(t)
        keys == MonthKeys(kept)
        group(k) == SelectSeq(kept, LAMBDA r : r.Year = k[1] /\ r.MonthNumber = k[2])
    IN SortMonths([i \in 1..Len(keys) |->
                      [Year |-> keys[i][1], MonthNumber |-> keys[i][2],
                       MonthName |-> TURKISH_MONTHS[keys[i][2]],
                       MonthYear |-> format_month_year(keys[i][1], TURKISH_MONTHS[keys[i][2]]),
                       Toplam |-> SumCol(group(keys[i]), column)]])

\* tables whose rows differ in issue month and value
MonthlyRows ==
    { CleanRow(RawRow(issue, "A", 1, 0, cpi, 0, "NO", "NO")) :
        issue \in {<<2024, 12>>, <<2025, 1>>, <<2025, 4>>, NaT}, cpi \in {1, 2, NaN} }

MonthlyCalls ==
    { [fn |-> "filter_monthly_data", table |-> t, result |-> <<>>, done |-> FALSE] :
        t \in SeqsUpTo(MonthlyRows, MaxRows) }

ApplyFilterMonthlyData ==
    /\ call.fn = "filter_monthly_data"
    /\ ~call.done
    /\ call' = [call EXCEPT !.result = filter_monthly_data(call.table, "cpi"),
                            !.done = TRUE]
    /\ OnlyCallChanges

\* C11: the rows filter_monthly_data returns are in strictly ascending
\* (Year, MonthNumber) order, so December of a year precedes January of the
\* next and no month appears twice; the months returned are exactly the
\* months of the rows with an issue date, each with the sum of its rows'
\* values.
C11_MonthlyChronological ==
    (call.fn = "filter_monthly_data" /\ call.done) =>
        LET res == call.result
            dated == {i \in 1..Len(call.table) : call.table[i].issue # NaT}
        IN /\ \A i \in 1..Len(res), j \in 1..Len(res) : i < j =>
                 \/ res[i].Year < res[j].Year
                 \/ res[i].Year = res[j].Year /\ res[i].MonthNumber < res[j].MonthNumber
           /\ {<<res[i].Year, res[i].MonthNumber>> : i \in 1..Len(res)}
                = {call.table[i].issue : i \in dated}
           /\ \A i \in 1..Len(res) :
                 res[i].Toplam =
                     SumCol(SelectSeq(call.table,
                                      LAMBDA r : r.issue = <<res[i].Year, res[i].MonthNumber>>),
                            "cpi")

C11_Witness ==
    /\ call.fn = "filter_monthly_data"
    /\ call.done
    /\ Len(call.table) = 3
    /\ call.table[1].issue = <<2025, 1>>
    /\ call.table[2].issue = <<2024, 12>>
    /\ call.table[3].issue = <<2025, 1>>
    /\ call.table[1].cpi = 2
    /\ call.table[3].cpi = 1
    /\ Len(call.result) = 2
    /\ call.result[1].MonthYear = format_month_year(2024, "Aralik")
    /\ call.result[2].MonthYear = format_month_year(2025, "Ocak")
    /\ call.result[2].Toplam = 3

\* lines 221-224: _month_year_sort_key of a "<year> <month name>" label
month_year_sort_key_MonthOnly(label) ==
    LET blank == CHOOSE i \in 1..Len(label) :
                     label[i] = " " /\ \A j \in 1..(i - 1) : label[j] # " "
        month_name == SubSeq(label, blank + 1, Len(label))
        hits == {k \in 1..12 : <<TURKISH_MONTHS[k]>> = month_name}
    IN [Year |-> 0,
        MonthNumber |-> IF hits = {} THEN 0 ELSE CHOOSE k \in hits : TRUE]

\* label.split(" ", 1) cuts at the first blank; int(year_str); the first
\* month number whose name is month_name, else 0
month_year_sort_key(label) ==
    LET blank == CHOOSE i \in 1..Len(label) :
                     label[i] = " " /\ \A j \in 1..(i - 1) : label[j] # " "
        year_str == SubSeq(label, 1, blank - 1)
        month_name == SubSeq(label, blank + 1, Len(label))
        hits == {k \in 1..12 : <<TURKISH_MONTHS[k]>> = month_name}
    IN [Year |-> DigitsVal(year_str),
        MonthNumber |-> IF hits = {} THEN 0
                        ELSE CHOOSE k \in hits : \A h \in hits : k <= h]

\* the distinct MonthYear labels of the rows
RECURSIVE MonthLabels(_)
MonthLabels(t) ==
    IF t = <<>> THEN <<>>
    ELSE LET rest == MonthLabels(SubSeq(t, 1, Len(t) - 1))
             l == t[Len(t)].MonthYear
         IN IF l \in Range(rest) THEN rest ELSE Append(rest, l)

\* line 214: sort_index(key=...) on the labels
SortLabels(labels) ==
    LET keyed == SortMonths([i \in 1..Len(labels) |->
                    [Year |-> month_year_sort_key(labels[i]).Year,
                     MonthNumber |-> month_year_sort_key(labels[i]).MonthNumber,
                     label |-> labels[i]]])
    IN [i \in 1..Len(keyed) |-> keyed[i].label]

\* line 212: fill_value=0.0 applied to a cell of the unstacked table
fill_value_Keep(v) == v

fill_value(v) == IF v = NaN THEN 0 ELSE v

\* lines 202-218: the pivot as its salesperson columns and its rows, each
\* row a MonthYear label and one cell per column
pivot_salesman_monthly(t, value_column) ==
    LET kept == SelectSeq(t, LAMBDA r : r.MonthYear # NoMonthYear)
        keyed == SelectSeq(kept, LAMBDA r : r.sm # NoneStr)
        cols == SelectSeq(SalesmanOrder, LAMBDA n : \E i \in 1..Len(keyed) : keyed[i].sm = n)
        labels == SortLabels(MonthLabels(keyed))
        group(l, n) == SelectSeq(keyed, LAMBDA r : r.MonthYear = l /\ r.sm = n)
        unstacked(l, n) == IF group(l, n) = <<>> THEN NaN
                           ELSE SumCol(group(l, n), value_column)
    IN [columns |-> cols,
        rows |-> [i \in 1..Len(labels) |->
                    [MonthYear |-> labels[i],
                     cells |-> [n \in Range(cols) |-> fill_value(unstacked(labels[i], n))]]]]

PivotRows ==
    { CleanRow(RawRow(issue, sm, 1, 0, cpi, 0, "NO", "NO")) :
        issue \in {<<2024, 12>>, <<2025, 1>>, NaT}, sm \in {"A", "B", NoneStr},
        cpi \in {2, NaN} }

PivotCalls ==
    { [fn |-> "pivot_salesman_monthly", table |-> t, result |-> <<>>, done |-> FALSE] :
        t \in SeqsUpTo(PivotRows, MaxRows) }

ApplyPivotSalesmanMonthly ==
    /\ call.fn = "pivot_salesman_monthly"
    /\ ~call.done
    /\ call' = [call EXCEPT !.result = pivot_salesman_monthly(call.table, "cpi"),
                            !.done = TRUE]
    /\ OnlyCallChanges

\* C12: every row of the pivot has a cell for every salesperson column; the
\* cell holds the sum of the value column over the input rows with that
\* month and salesperson, and 0 when no input row has that combination.
C12_PivotCellsFilled ==
    (call.fn = "pivot_salesman_monthly" /\ call.done) =>
        \A i \in 1..Len(call.result.rows) :
            LET row == call.result.rows[i]
                rowsOf(n) == SelectSeq(call.table,
                                LAMBDA r : r.MonthYear = row.MonthYear /\ r.sm = n)
            IN /\ DOMAIN row.cells = Range(call.result.columns)
               /\ \A n \in Range(call.result.columns) :
                     /\ row.cells[n] # NaN
                     /\ row.cells[n] = SumCol(rowsOf(n), "cpi")
                     /\ rowsOf(n) = <<>> => row.cells[n] = 0

C12_Witness ==
    /\ call.fn = "pivot_salesman_monthly"
    /\ call.done
    /\ call.result.columns = <<"A", "B">>
    /\ Len(call.result.rows) = 2
    /\ call.result.rows[1].MonthYear = format_month_year(2024, "Aralik")
    /\ call.result.rows[1].cells["A"] = 4
    /\ call.result.rows[1].cells["B"] = 0
    /\ call.result.rows[2].MonthYear = format_month_year(2025, "Ocak")
    /\ call.result.rows[2].cells["A"] = 0
    /\ call.result.rows[2].cells["B"] = 2

\* lines 337-343: the first four rows of summary_metrics, from the table
\* read_and_clean_data returned
summary_metrics(t) ==
    [total |-> SumCol(t, "cpi"),
     invoiced |-> SumCol(invoiced_df(t), "cpi"),
     not_invoiced |-> SumCol(not_invoiced_df(t), "cpi"),
     won |-> SumCol(won_df(t), "cpi")]

\* source rows that differ in the Invoiced cell, the QI Forecast cell and CPI
MetricRows ==
    { RawRow(<<2024, 12>>, "A", 100000, 0, cpi, 0, fc, inv) :
        cpi \in {80000, 50000, NaN}, fc \in {" yes ", "NO"},
        inv \in {"Evet", "No", NoneStr} }

MetricCalls ==
    { [fn |-> "summary_metrics", table |-> t, result |-> <<>>, done |-> FALSE] :
        t \in SeqsUpTo(MetricRows, MaxRows) }

ApplySummaryMetrics ==
    /\ call.fn = "summary_metrics"
    /\ ~call.done
    /\ call' = [call EXCEPT !.result = summary_metrics(CleanTable(call.table)),
                            !.done = TRUE]
    /\ OnlyCallChanges

\* one loaded row for every month of the years drawn
SortKeyYears == {1999, 2024, 2025}
SortKeyCalls ==
    { [fn |-> "month_year_sort_key",
       table |-> <<CleanRow(RawRow(<<y, m>>, "A", 1, 0, 1, 0, "NO", "NO"))>>,
       result |-> <<>>, done |-> FALSE] : y \in SortKeyYears, m \in 1..12 }

ApplyMonthYearSortKey ==
    /\ call.fn = "month_year_sort_key"
    /\ ~call.done
    /\ call' = [call EXCEPT !.result = month_year_sort_key(call.table[1].MonthYear),
                            !.done = TRUE]
    /\ OnlyCallChanges

InitAggregates ==
    /\ call \in MonthlyCalls \cup PivotCalls \cup MetricCalls \cup SortKeyCalls
    /\ PipelineIdle
    /\ AppIdle

NextAggregates ==
    \/ ApplyFilterMonthlyData
    \/ ApplyPivotSalesmanMonthly
    \/ ApplySummaryMetrics
    \/ ApplyMonthYearSortKey

SpecAggregates == InitAggregates /\ [][NextAggregates]_vars

\* the value of the CPI cells of the source rows at the positions in `where`,
\* a missing cell counting as zero
RECURSIVE CpiOver(_, _)
CpiOver(t, where) ==
    IF where = {} THEN 0
    ELSE LET i == CHOOSE j \in where : TRUE
         IN (IF t[i].cpi = NaN THEN 0 ELSE t[i].cpi) + CpiOver(t, where \ {i})

\* C13: total CPI is the sum of CPI over all rows, invoiced CPI over the rows
\* whose Invoiced cell is an affirmative text, not-invoiced CPI over the
\* other rows, won CPI over the rows whose QI Forecast cell is "YES" after
\* trimming and uppercasing; a missing CPI cell contributes zero.
C13_SummaryMetrics ==
    (call.fn = "summary_metrics" /\ call.done) =>
        LET t == call.table
            all == 1..Len(t)
            yes == {i \in all : t[i].inv = "Evet"}
            won == {i \in all : t[i].fc = " yes "}
        IN /\ call.result.total = CpiOver(t, all)
           /\ call.result.invoiced = CpiOver(t, yes)
           /\ call.result.not_invoiced = CpiOver(t, all \ yes)
           /\ call.result.won = CpiOver(t, won)

\* the three-row scenario: amounts in hundredths
C13_Witness ==
    /\ call.fn = "summary_metrics"
    /\ call.done
    /\ call.table = << RawRow(<<2024, 12>>, "A", 100000, 0, 80000, 0, "NO", "Evet"),
                       RawRow(<<2024, 12>>, "A", 100000, 0, 50000, 0, "NO", "No"),
                       RawRow(<<2024, 12>>, "A", 100000, 0, NaN, 0, " yes ", NoneStr) >>
    /\ call.result = [total |-> 130000, invoiced |-> 80000,
                      not_invoiced |-> 50000, won |-> 0]

(***************************************************************************)
(* Cell values and the value normalisers (sales_reporting.py 111-183)      *)
(*                                                                         *)
(* A cell is a record: [k |-> "nan"] (empty cell), [k |-> "num", num |-> d]*)
(* with d a decimal number, [k |-> "str", str |-> s] with s the text as a  *)
(* sequence of characters, [k |-> "bool", bool |-> b], [k |-> "date",      *)
(* date |-> t]                                                             *)
(* with t = <<year, month>>.  A decimal number is [m |-> m, e |-> e],      *)
(* standing for m / 10^e; binary rounding of floats is not represented.    *)
(* The euro sign is the character "EUR".                                   *)
(***************************************************************************)
NanCell == [k |-> "nan"]
NumCell(d) == [k |-> "num", num |-> d]
StrCell(s) == [k |-> "str", str |-> s]
BoolCell(b) == [k |-> "bool", bool |-> b]
DateCell(t) == [k |-> "date", date |-> t]
NoneValue == [k |-> "none"]          \* Python None returned by a normaliser

Dec(m, e) == [m |-> m, e |-> e]

RECURSIVE Pow10(_)
Pow10(n) == IF n = 0 THEN 1 ELSE 10 * Pow10(n - 1)

DecEq(a, b) == a.m * Pow10(b.e) = b.m * Pow10(a.e)
DecGt(a, b) == a.m * Pow10(b.e) > b.m * Pow10(a.e)

\* str.replace(c, "") and str.replace(a, b) for single characters
RemoveChar_Keep(s, c) == s

RemoveChar(s, c) == SelectSeq(s, LAMBDA x : x # c)
ReplaceChar(s, a, b) == [i \in 1..Len(s) |-> IF s[i] = a THEN b ELSE s[i]]

\* str.replace("TL", "")
RECURSIVE RemoveTL(_)
RemoveTL(s) ==
    IF Len(s) < 2 THEN s
    ELSE IF s[1] = "T" /\ s[2] = "L" THEN RemoveTL(SubSeq(s, 3, Len(s)))
    ELSE <<s[1]>> \o RemoveTL(Tail(s))

\* str.strip()
RECURSIVE LStrip(_)
LStrip(s) == IF s # <<>> /\ Head(s) = " " THEN LStrip(Tail(s)) ELSE s
RECURSIVE RStrip(_)
RStrip(s) ==
    IF s # <<>> /\ s[Len(s)] = " " THEN RStrip(SubSeq(s, 1, Len(s) - 1)) ELSE s
Strip(s) == RStrip(LStrip(s))

\* float(text): surrounding blanks are ignored; an optional sign, then
\* digits with at most one point and at least one digit.  The result is
\* NoneValue where float() raises ValueError.  (Exponents, "inf", "nan" and
\* underscores need characters the texts of the model do not contain.)
ParseFloat(text) ==
    LET t == Strip(text)
        signed == t # <<>> /\ Head(t) \in {"-", "+"}
        body == IF signed THEN Tail(t) ELSE t
        points == {i \in 1..Len(body) : body[i] = "."}
        whole == IF points = {} THEN body
                 ELSE SubSeq(body, 1, (CHOOSE i \in points : TRUE) - 1)
        frac == IF points = {} THEN <<>>
                ELSE SubSeq(body, (CHOOSE i \in points : TRUE) + 1, Len(body))
        wellFormed == /\ Cardinality(points) <= 1
                      /\ \A i \in 1..Len(whole) : whole[i] \in Digits
                      /\ \A i \in 1..Len(frac) : frac[i] \in Digits
                      /\ Len(whole) + Len(frac) >= 1
        magnitude == DigitsVal(whole \o frac)
    IN IF ~wellFormed THEN NoneValue
       ELSE NumCell(Dec(IF signed /\ Head(t) = "-" THEN 0 - magnitude ELSE magnitude,
                        Len(frac)))

\* lines 134-151
clean_currency_value(value) ==
    CASE value.k = "nan" -> NoneValue
      [] value.k = "str" /\ value.str = <<>> -> NoneValue
      [] value.k = "num" -> value
      [] value.k = "bool" -> NumCell(Dec(IF value.bool THEN 1 ELSE 0, 0))
      [] value.k = "str" ->
            LET noSymbol == RemoveTL(RemoveChar(value.str, "EUR"))
                noBlank == RemoveChar(noSymbol, " ")
                cleaned == ReplaceChar(RemoveChar(noBlank, "."), ",", ".")
            IN ParseFloat(cleaned)
      [] OTHER -> NoneValue      \* str(datetime) is no number

\* lines 164, 169: number / 100 if number > 1 else number
ratio_Always(number) == Dec(number.m, number.e + 2)

ratio(number) ==
    IF DecGt(number, Dec(1, 0)) THEN Dec(number.m, number.e + 2) ELSE number

\* lines 154-170
clean_percentage_value(value) ==
    CASE value.k = "nan" -> NoneValue
      [] value.k = "str" /\ value.str = <<>> -> NoneValue
      [] value.k = "num" -> NumCell(ratio(value.num))
      [] value.k = "bool" -> NumCell(Dec(IF value.bool THEN 1 ELSE 0, 0))
      [] value.k = "str" ->
            LET noSign == RemoveChar(Strip(value.str), "%")
                cleaned == ReplaceChar(RemoveChar(noSign, "."), ",", ".")
                number == ParseFloat(cleaned)
            IN IF number = NoneValue THEN NoneValue ELSE NumCell(ratio(number.num))
      [] OTHER -> NoneValue

\* texts of the form "EUR d.ddd,dd" and other cells a currency column holds
EuroTexts ==
    { <<"EUR", " ", a, ".", b, c, d, ",", e, f>> :
        a \in {"0", "1", "9"}, b \in {"0", "9"}, c \in {"0", "3"},
        d \in {"0", "4"}, e \in {"0", "5"}, f \in {"0", "6"} }
    \cup { <<"EUR", " ", "1", ".", "2", "3", "4", ",", "5", "6">> }

CurrencyCells ==
    { StrCell(t) : t \in EuroTexts }
    \cup { NanCell, StrCell(<<>>), StrCell(<<" ">>),
           NumCell(Dec(123456, 2)), NumCell(Dec(5, 0)), NumCell(Dec(0 - 75, 1)),
           BoolCell(TRUE), DateCell(<<2024, 12>>),
           StrCell(<<"1", ".", "2", "3", "4", ",", "5", "6", " ", "T", "L">>),
           StrCell(<<"a", "b", "c">>),
           StrCell(<<"1", "2", ",", "5">>),
           StrCell(<<"-", "3", ",", "5", "0">>),
           StrCell(<<"1", ",", "2", ",", "3">>),
           StrCell(<<"%", "5", "0", ",", "0">>),
           StrCell(<<" ", "7", " ">>) }

\* texts of the form "%dd,d" and other cells given as a percentage
PercentTexts ==
    { <<"%", a, b, ",", c>> :
        a \in {"0", "1", "5"}, b \in {"0", "1", "5"}, c \in {"0", "5"} }

PercentCells ==
    { StrCell(t) : t \in PercentTexts }
    \cup { NumCell(Dec(m, e)) : m \in {0 - 5, 0, 2, 10, 11, 15, 50, 100}, e \in {0, 1} }
    \cup { NanCell, StrCell(<<>>), BoolCell(TRUE),
           StrCell(<<"5", "0">>), StrCell(<<" ", "2", "5", " ", "%">>),
           StrCell(<<"0", ".", "2">>), StrCell(<<"0", ",", "2">>),
           StrCell(<<"a", "b", "c">>), StrCell(<<"%">>) }

CellCalls ==
    { [fn |-> "clean_currency_value", arg |-> c, result |-> NoneValue, done |-> FALSE] :
        c \in CurrencyCells }
    \cup
    { [fn |-> "clean_percentage_value", arg |-> c, result |-> NoneValue, done |-> FALSE] :
        c \in PercentCells }

InitCells ==
    /\ call \in CellCalls
    /\ PipelineIdle
    /\ AppIdle

ApplyCleanCurrencyValue ==
    /\ call.fn = "clean_currency_value"
    /\ ~call.done
    /\ call' = [call EXCEPT !.result = clean_currency_value(call.arg), !.done = TRUE]
    /\ OnlyCallChanges

ApplyCleanPercentageValue ==
    /\ call.fn = "clean_percentage_value"
    /\ ~call.done
    /\ call' = [call EXCEPT !.result = clean_percentage_value(call.arg), !.done = TRUE]
    /\ OnlyCallChanges

NextCells == ApplyCleanCurrencyValue \/ ApplyCleanPercentageValue

SpecCells == InitCells /\ [][NextCells]_vars

IsDigits(s) == \A i \in 1..Len(s) : s[i] \in Digits

\* a text "%dd,d", and the number it denotes once "%" is taken off
PercentForm(c) ==
    /\ c.k = "str"
    /\ Len(c.str) = 5
    /\ c.str[1] = "%"
    /\ IsDigits(SubSeq(c.str, 2, 3))
    /\ c.str[4] = ","
    /\ IsDigits(SubSeq(c.str, 5, 5))
PercentOf(c) == Dec(DigitsVal(<<c.str[2], c.str[3], c.str[5]>>), 1)

\* C16: for a numeric input p, and for a text "%dd,d" whose number is p,
\* clean_percentage_value returns p when p <= 1 and p / 100 when p > 1.
C16_PercentageRatio ==
    (call.fn = "clean_percentage_value" /\ call.done
       /\ (call.arg.k = "num" \/ PercentForm(call.arg))) =>
        LET p == IF call.arg.k = "num" THEN call.arg.num ELSE PercentOf(call.arg)
        IN /\ call.result.k = "num"
           /\ IF p.m * 1 > Pow10(p.e)
              THEN call.result.num.m * Pow10(p.e + 2) = p.m * Pow10(call.result.num.e)
              ELSE call.result.num.m * Pow10(p.e) = p.m * Pow10(call.result.num.e)

C16_Witness ==
    /\ call.fn = "clean_percentage_value"
    /\ call.done
    /\ call.arg = StrCell(<<"%", "5", "0", ",", "0">>)
    /\ call.result.k = "num"
    /\ call.result.num.m * 10 = 5 * Pow10(call.result.num.e)

\* a text "EUR d.ddd,dd"
EuroForm(c) ==
    /\ c.k = "str"
    /\ Len(c.str) = 10
    /\ c.str[1] = "EUR" /\ c.str[2] = " "
    /\ IsDigits(SubSeq(c.str, 3, 3))
    /\ c.str[4] = "."
    /\ IsDigits(SubSeq(c.str, 5, 7))
    /\ c.str[8] = ","
    /\ IsDigits(SubSeq(c.str, 9, 10))

\* C17: for a text "EUR d.ddd,dd" clean_currency_value returns the number
\* whose integer part is the digits before the comma without the point and
\* whose fraction is the two digits after the comma, in hundredths; a
\* numeric input is returned with the same value.
C17_CurrencyValue ==
    (call.fn = "clean_currency_value" /\ call.done) =>
        /\ call.arg.k = "num" => call.result = call.arg
        /\ EuroForm(call.arg) =>
              /\ call.result.k = "num"
              /\ call.result.num.m * 100 =
                    ( DigitsVal(<<call.arg.str[3], call.arg.str[5], call.arg.str[6],
                                  call.arg.str[7]>>) * 100
                      + DigitsVal(<<call.arg.str[9], call.arg.str[10]>>) )
                    * Pow10(call.result.num.e)

C17_Witness ==
    /\ call.fn = "clean_currency_value"
    /\ call.done
    /\ call.arg = StrCell(<<"EUR", " ", "1", ".", "2", "3", "4", ",", "5", "6">>)
    /\ call.result = NumCell(Dec(123456, 2))

(***************************************************************************)
(* Claims about read_and_clean_data                                        *)
(***************************************************************************)
\* C15 as stated: a run whose input file exists, can be read and has every
\* required column does not fail in read_and_clean_data, and the table it
\* returns has the rows of the input, whatever the cells hold.
C15_CleaningNeverFails ==
    (inputFile.exists /\ inputFile.readable /\ missing_columns(inputFile.cols) = <<>>)
        => /\ ~(pc = "failed" /\ outcome.at = "load")
           /\ At \notin {"progress1", "load"} => Len(rdf) = Len(inputFile.rows)

\* a Total Discount value, in hundredths, that is missing or in [0, 1]
UnitInterval(disc) == disc = NaN \/ (0 <= disc /\ disc <= 100)

\* C18 as stated: every row of the application's table and every row of the
\* table read_and_clean_data returned has a Total Discount that is missing
\* or lies in [0, 1].
C18_DiscountInUnitInterval ==
    /\ \A i \in 1..Len(df) : UnitInterval(df[i].disc)
    /\ \A i \in 1..Len(rdf) : UnitInterval(rdf[i].disc)

\* the application's half of C18, which holds
C18_AppDiscountInUnitInterval ==
    \A i \in 1..Len(df) : UnitInterval(df[i].disc)

(***************************************************************************)
(* Two tables written to one sheet (sales_reporting.py 266-300, 361-391)   *)
(*                                                                         *)
(* A cell is <<row, column>> in the sheet's 1-based numbering.             *)
(***************************************************************************)
\* DataFrame.to_excel(startrow, startcol, index=False): the header row and
\* the body rows of a table of nrows rows and ncols columns
to_excel_cells(nrows, ncols, startrow, startcol) ==
    {<<r, c>> : r \in (startrow + 1)..(startrow + 1 + nrows),
                c \in (startcol + 1)..(startcol + ncols)}

\* lines 266-285: the cells apply_table_formatting styles
apply_table_formatting(start_row, start_col, end_row, end_col) ==
    {<<r, c>> : r \in {start_row} \cup (start_row..end_row), c \in start_col..end_col}

\* lines 288-300: the cells one write_dataframe call writes and styles
write_dataframe_cells(nrows, ncols, startrow, startcol) ==
    LET end_row == startrow + nrows + 1
        end_col == startcol + ncols
    IN [written |-> to_excel_cells(nrows, ncols, startrow, startcol),
        styled |-> apply_table_formatting(startrow + 1, startcol + 1, end_row, end_col)]

\* lines 366, 374, 382, 390: startrow=len(first table) + 3
second_startrow_NoGap(first_len) == first_len

second_startrow(first_len) == first_len + 3

TableShapes == [rows : 0..MaxRows, cols : 0..MaxCols]

InitLayout ==
    /\ call \in { [fn |-> "write_dataframe", first |-> a, second |-> b,
                   count |-> 0, written |-> {}, styled |-> {}] :
                    a \in TableShapes, b \in TableShapes }
    /\ PipelineIdle
    /\ AppIdle

\* the first and then the second write_dataframe on the sheet; a cell is
\* recorded with the number of the table that wrote or styled it
WriteFirstTable ==
    /\ call.fn = "write_dataframe"
    /\ call.count = 0
    /\ LET w == write_dataframe_cells(call.first.rows, call.first.cols, 0, 0)
       IN call' = [call EXCEPT !.count = 1,
                               !.written = {<<x, 1>> : x \in w.written},
                               !.styled = {<<x, 1>> : x \in w.styled}]
    /\ OnlyCallChanges

WriteSecondTable ==
    /\ call.fn = "write_dataframe"
    /\ call.count = 1
    /\ LET w == write_dataframe_cells(call.second.rows, call.second.cols,
                                      second_startrow(call.first.rows), 0)
       IN call' = [call EXCEPT !.count = 2,
                               !.written = @ \cup {<<x, 2>> : x \in w.written},
                               !.styled = @ \cup {<<x, 2>> : x \in w.styled}]
    /\ OnlyCallChanges

NextLayout == WriteFirstTable \/ WriteSecondTable

SpecLayout == InitLayout /\ [][NextLayout]_vars

\* C20: of two tables written to one sheet, no cell is written or styled by
\* both, whatever their numbers of rows and columns.
C20_TablesDisjoint ==
    call.fn = "write_dataframe" =>
        \A x \in call.written \cup call.styled, y \in call.written \cup call.styled :
            x[1] = y[1] => x[2] = y[2]

C20_Witness ==
    /\ call.fn = "write_dataframe"
    /\ call.count = 2
    /\ call.first.rows = 0 /\ call.first.cols = 2
    /\ call.second.rows = 3 /\ call.second.cols = 2
    /\ <<<<1, 1>>, 1>> \in call.written
    /\ <<<<4, 2>>, 2>> \in call.written
    /\ <<<<7, 2>>, 2>> \in call.styled

(***************************************************************************)
(* _collect_form_data applied to drawn form contents                       *)
(***************************************************************************)
\* Amount and CPS as typed, in thousandths, and the discount in percent,
\* on a form whose other entries are filled in, and forms with a blank
\* Definition, a blank Date of Request or a date that does not parse
FormEntries ==
    { Form(<<2025, 1>>, <<2025, 1>>, <<2025, 3>>, "B", "X", "D",
           amount, cps, discount, "NO", "NO") :
        amount \in {Blank, NaN, 0, 1004, 1005, 0 - 2505, 100000},
        cps \in {NaN, 0, 5, 500, 2000},
        discount \in {NaN, 0, 10, 150, 0 - 5} }
    \cup
    { Form(request, issue, delivery, "B", "X", definition, amount, 5, 10, "NO", "NO") :
        request \in {<<2025, 1>>, NaT, BadDate},
        issue \in {<<2025, 1>>, BadDate},
        delivery \in {NaT, BadDate},
        definition \in {"D", ""},
        amount \in {Blank, 1005} }

InitForm ==
    /\ call \in { [fn |-> "collect_form_data", form |-> f, errors |-> {},
                   result |-> <<>>, done |-> FALSE] : f \in FormEntries }
    /\ PipelineIdle
    /\ AppIdle

ApplyCollectFormData ==
    /\ call.fn = "collect_form_data"
    /\ ~call.done
    /\ call' = [call EXCEPT !.errors = form_errors(call.form),
                            !.result = IF form_errors(call.form) = {}
                                       THEN collect_form_data(call.form) ELSE <<>>,
                            !.done = TRUE]
    /\ OnlyCallChanges

NextForm == ApplyCollectFormData

SpecForm == InitForm /\ [][NextForm]_vars

\* x (hundredths) is t (thousandths) rounded half up to two decimals
RoundedToCents(x, t) ==
    IF t >= 0 THEN 10 * x - t \in (0 - 4)..5 ELSE 10 * x - t \in (0 - 5)..4

\* C19: the row _collect_form_data returns for an accepted form has
\* CPI = Amount - CPS, where Amount and CPS are the entries rounded to two
\* decimals and a blank CPS is 0.
C19_CpiIsAmountMinusCps ==
    (call.fn = "collect_form_data" /\ call.done /\ call.errors = {}) =>
        /\ call.result.cpi = call.result.amount - call.result.cps
        /\ RoundedToCents(call.result.amount, call.form.amount)
        /\ IF call.form.cps = NaN THEN call.result.cps = 0
           ELSE RoundedToCents(call.result.cps, call.form.cps)

C19_Witness ==
    /\ call.fn = "collect_form_data"
    /\ call.done
    /\ call.errors = {}
    /\ call.form.amount = 1005
    /\ call.form.cps = 5
    /\ call.form.discount = 10
    /\ call.result.amount = 101
    /\ call.result.cps = 1
    /\ call.result.cpi = 100

(***************************************************************************)
(* The Detail sheet read again (sales_reporting.py 75, 85-108, 393)        *)
(***************************************************************************)
\* the texts pd.read_excel turns into a missing cell (keep_default_na)
NA_VALUES ==
    { "", "#N/A", "#N/A N/A", "#NA", "-1.#IND", "-1.#QNAN", "-NaN", "-nan",
      "1.#IND", "1.#QNAN", "<NA>", "N/A", "NA", "NULL", "NaN", "None", "n/a",
      "nan", "null" }

\* line 75: a text cell as pd.read_excel returns it
read_excel_text(v) == IF v \in NA_VALUES THEN NoneStr ELSE v

read_excel_rows(rows) ==
    [i \in 1..Len(rows) |->
        [rows[i] EXCEPT !.sm = read_excel_text(@), !.fc = read_excel_text(@),
                        !.inv = read_excel_text(@)]]

\* line 393: the cells of a row of the Detail sheet; a missing date or
\* number is an empty cell, the Invoiced flag a boolean cell
DetailRows(t) ==
    [i \in 1..Len(t) |->
        RawRow(t[i].issue, t[i].sm, t[i].amount, t[i].disc, t[i].cpi, t[i].cps,
               t[i].fc, IF t[i].inv THEN "<True>" ELSE "<False>")]

\* source rows as pd.read_excel returned them
LoaderRows ==
    { RawRow(issue, "A", 1, 0, cpi, 0, fc, inv) :
        issue \in {<<2024, 12>>, NaT}, cpi \in {1, NaN},
        fc \in {"yes", "na", "NO", NoneStr}, inv \in {"Evet", NoneStr} }

\* a table without rows does not pass read_and_clean_data
InitLoader ==
    /\ call \in { [fn |-> "read_and_clean_data", table |-> t, result |-> <<>>,
                   again |-> <<>>, stage |-> 0] :
                    t \in SeqsUpTo(LoaderRows, MaxRows) \ {<<>>} }
    /\ PipelineIdle
    /\ AppIdle

ApplyReadAndClean ==
    /\ call.fn = "read_and_clean_data"
    /\ call.stage = 0
    /\ call' = [call EXCEPT !.result = CleanTable(call.table), !.stage = 1]
    /\ OnlyCallChanges

\* the Detail sheet of the report written from call.result, loaded again
ApplyReadAndCleanAgain ==
    /\ call.fn = "read_and_clean_data"
    /\ call.stage = 1
    /\ call' = [call EXCEPT
                  !.again = CleanTable(read_excel_rows(DetailRows(call.result))),
                  !.stage = 2]
    /\ OnlyCallChanges

NextLoader == ApplyReadAndClean \/ ApplyReadAndCleanAgain

SpecLoader == InitLoader /\ [][NextLoader]_vars

\* C14 as stated: loading the Detail sheet written from a loaded table gives
\* the same value in every column of every row.
C14_NormalisationIdempotent ==
    (call.fn = "read_and_clean_data" /\ call.stage = 2) => call.again = call.result

(***************************************************************************)
(* The chart of a pivot sheet (sales_reporting.py 369-375, 395-403,        *)
(* 416-429)                                                                *)
(***************************************************************************)
\* openpyxl Reference(sheet, min_col, min_row, max_col, max_row); max_col
\* defaults to min_col
Reference(min_col, min_row, max_col, max_row) ==
    [min_col |-> min_col, min_row |-> min_row, max_col |-> max_col, max_row |-> max_row]

\* the cells a reference spans
RefCells(ref) ==
    {<<r, c>> : r \in ref.min_row..ref.max_row, c \in ref.min_col..ref.max_col}

\* sheet.max_row: the last row holding a cell (1 for an empty sheet)
sheet_max_row(cells) ==
    IF cells = {} THEN 1
    ELSE CHOOSE r \in {x[1] : x \in cells} : \A x \in cells : x[1] <= r

\* lines 421-425: the data and categories references of the chart
chart_references(column_count, max_row) ==
    [data |-> Reference(2, 1, column_count, max_row),
     categories |-> Reference(1, 2, 1, max_row)]

\* A pivot of `rows` months and `n` salesperson columns and, below it, the
\* totals of `totals` salespersons; a pivot has a row exactly when it has a
\* salesperson column, and every one of its salespersons has a total.
ChartShapes ==
    { [rows |-> r, n |-> n, totals |-> k] :
        r \in 0..MaxRows, n \in 0..MaxSalesmen, k \in 0..MaxSalesmen }

ChartInputs ==
    { x \in ChartShapes : (x.rows = 0 <=> x.n = 0) /\ x.totals >= x.n }

InitChart ==
    /\ call \in { [fn |-> "add_category_chart", shape |-> x, count |-> 0,
                   cells |-> {}, charts |-> {}, refs |-> {}] : x \in ChartInputs }
    /\ PipelineIdle
    /\ AppIdle

\* lines 369, 377, 385: the pivot at the top of its sheet
WritePivot ==
    /\ call.fn = "add_category_chart"
    /\ call.count = 0
    /\ LET w == write_dataframe_cells(call.shape.rows, 1 + call.shape.n, 0, 0)
       IN call' = [call EXCEPT !.count = 1, !.cells = w.written \cup w.styled]
    /\ OnlyCallChanges

\* lines 370-375: the salesperson totals (two columns) below it
WriteTotals ==
    /\ call.fn = "add_category_chart"
    /\ call.count = 1
    /\ LET w == write_dataframe_cells(call.shape.totals, 2,
                                      second_startrow(call.shape.rows), 0)
       IN call' = [call EXCEPT !.count = 2, !.cells = @ \cup w.written \cup w.styled]
    /\ OnlyCallChanges

\* lines 416-429: _add_category_chart(workbook, sheet_name, len(pivot.columns))
add_category_chart ==
    /\ call.fn = "add_category_chart"
    /\ call.count = 2
    /\ LET column_count == 1 + call.shape.n
           attached == ChartFor("CPI Faturalanan Raporu", column_count)
       IN call' = [call EXCEPT
                     !.count = 3,
                     !.charts = attached,
                     !.refs = IF attached = {} THEN {}
                              ELSE {chart_references(column_count,
                                                     sheet_max_row(call.cells))}]
    /\ OnlyCallChanges

NextChart == WritePivot \/ WriteTotals \/ add_category_chart

SpecChart == InitChart /\ [][NextChart]_vars

\* C21 as stated: the data series of a pivot sheet's chart span the
\* salesperson columns over the pivot's header and body rows and nothing
\* else, and its categories span the MonthYear cells of the body rows and
\* nothing else.
C21_ChartReferencesPivotOnly ==
    (call.fn = "add_category_chart" /\ call.count = 3) =>
        \A x \in call.refs :
            /\ RefCells(x.data) =
                 {<<r, c>> : r \in 1..(call.shape.rows + 1), c \in 2..(call.shape.n + 1)}
            /\ RefCells(x.categories) =
                 {<<r, 1>> : r \in 2..(call.shape.rows + 1)}

\* C22 as stated: with n salesperson columns a chart is attached exactly
\* when n > 1, a line chart when n <= 2 and a bar chart otherwise.
C22_ChartAboveOneColumn ==
    (call.fn = "add_category_chart" /\ call.count = 3) =>
        /\ (call.charts # {}) <=> (call.shape.n > 1)
        /\ \A c \in call.charts :
               c.type = IF call.shape.n <= 2 THEN "line" ELSE "bar"

\* C22 amended: a chart is attached exactly when n >= 1 (one chart, on the
\* pivot's sheet), a line chart when n <= 2 and a bar chart otherwise; for
\* n = 0 the call ends without a chart.
C22_ChartDecision ==
    (call.fn = "add_category_chart" /\ call.count = 3) =>
        /\ (call.charts # {}) <=> (call.shape.n >= 1)
        /\ Cardinality(call.charts) <= 1
        /\ \A c \in call.charts :
               /\ c.type = IF call.shape.n <= 2 THEN "line" ELSE "bar"
               /\ c.max_col = call.shape.n + 1

C22_Witness ==
    /\ call.fn = "add_category_chart"
    /\ call.count = 3
    /\ call.shape.n = 1
    /\ \E c \in call.charts : c.type = "line"

\* C23: the key _month_year_sort_key recovers from the label the loader
\* built for a row issued in month m of year y is (y, m); the rows of the
\* pivot carry the same labels in the same order as the rows
\* filter_monthly_data returns for the rows that have a salesperson, whose
\* (Year, MonthNumber) strictly ascend.
C23_SortKeyChronological ==
    /\ (call.fn = "month_year_sort_key" /\ call.done) =>
           /\ call.result.Year = call.table[1].issue[1]
           /\ call.result.MonthNumber = call.table[1].issue[2]
    /\ (call.fn = "pivot_salesman_monthly" /\ call.done) =>
           LET rows == call.result.rows
               monthly == filter_monthly_data(
                              SelectSeq(call.table, LAMBDA r : r.sm # NoneStr), "cpi")
           IN /\ Len(rows) = Len(monthly)
              /\ \A i \in 1..Len(rows) : rows[i].MonthYear = monthly[i].MonthYear
              /\ \A i \in 1..Len(monthly), j \in 1..Len(monthly) : i < j =>
                    \/ monthly[i].Year < monthly[j].Year
                    \/ /\ monthly[i].Year = monthly[j].Year
                       /\ monthly[i].MonthNumber < monthly[j].MonthNumber

\* a pivot of January 2025 (read first) and December 2024, December first
C23_Witness ==
    /\ call.fn = "pivot_salesman_monthly"
    /\ call.done
    /\ Len(call.table) >= 2
    /\ call.table[1].issue = <<2025, 1>>
    /\ call.table[2].issue = <<2024, 12>>
    /\ Len(call.result.rows) = 2
    /\ call.result.rows[1].MonthYear = format_month_year(2024, "Aralik")
    /\ call.result.rows[2].MonthYear = format_month_year(2025, "Ocak")

\* C24 as stated: salesperson_totals returns one row per salesperson of the
\* subset, in descending order of the summed value, and salespersons with
\* equal sums keep their grouping order (the result is the stable
\* descending sort of the grouped sums).
C24_TotalsStableDescending ==
    (call.fn = "salesperson_totals" /\ call.done) =>
        /\ \A i \in 1..Len(call.result), j \in 1..Len(call.result) :
               i < j => /\ call.result[i].sm # call.result[j].sm
                        /\ call.result[i].total >= call.result[j].total
        /\ {call.result[i].sm : i \in 1..Len(call.result)}
             = {call.table[i].sm : i \in 1..Len(call.table)} \ {NoneStr}
        /\ call.result = SortDesc(grouped_totals(call.table, "cpi"))

\* C29 as stated: the report of a stage precedes the stage's work: stage 1
\* is reported before the load is attempted, stage 3 before the run first
\* opens the destination file, stage 4 before the first chart call and the
\* second save.
C29_ReportBeforeWork ==
    /\ attempts.load > 0 => 1 \in Range(reported)
    /\ outputFile.st \in {"empty", "book"} => 3 \in Range(reported)
    /\ (wb.done > 0 \/ attempts.save2 > 0) => 4 \in Range(reported)

\* C26 as stated: whenever the worker of a report run reads the data file,
\* the file is one a save has completed, not one a foreground handler is
\* in the middle of writing; a table the worker loads is the table of the
\* file as it then stands.
C26_WorkerLoadsCompleteFile ==
    [][ (callback = "app" /\ pc = "load" /\ pc' # "load") =>
            /\ ~InputOfRun.writing
            /\ pc' = "progress2" => rdf' = CleanTable(InputOfRun.rows) ]_vars

(***************************************************************************)
(* An editing session: the foreground handlers on a table of two rows,     *)
(* no report run                                                           *)
(***************************************************************************)
\* a table that fills one page of the Treeview and starts a second one
TwoPages == [i \in 1..(PAGE_SIZE + 1) |-> RowA]

EditFiles ==
    { File(TRUE, TRUE, AppColumnSet, <<>>),
      File(TRUE, TRUE, AppColumnSet, <<RowA, RowB>>),
      File(TRUE, TRUE, AppColumnSet, <<RowB, RowA>>),
      File(TRUE, TRUE, AppColumnSet, <<RowA>>),
      File(TRUE, TRUE, AppColumnSet, TwoPages) }

InitEdit == InitWith(EditFiles, {TRUE}, None)

NextEdit ==
    \/ load_data \/ start_new_entry \/ reset_form
    \/ populate_form_from_selection \/ set_filter \/ sort_by_column
    \/ next_page \/ prev_page
    \/ save_data(MaxEditRows, MaxEditHistory)
    \/ update_data(MaxEditRows, MaxEditHistory)
    \/ delete_data(MaxEditHistory)
    \/ to_excel_returns \/ save_error_closed \/ message_closed
    \/ undo_last_change \/ redo_last_change

SpecEdit == InitEdit /\ [][NextEdit]_vars

\* C25 as stated: an update_data that changes the table changes exactly the
\* row the selected table entry shows, and a delete_data removes exactly
\* that row; every other row stays.
C25_SelectedRowEdited ==
    [][ /\ (lastOp' = "update_data" /\ df' # df /\ tree.selection # 0) =>
              \E p \in 1..Len(df) :
                  /\ Unlabelled(df[p]) = tree.items[tree.selection].row
                  /\ Len(df') = Len(df)
                  /\ \A q \in (1..Len(df)) \ {p} : df'[q] = df[q]
        /\ (lastOp' = "delete_data" /\ df' # df) =>
              \E p \in 1..Len(df) :
                  /\ Unlabelled(df[p]) = tree.items[tree.selection].row
                  /\ Values(df') = Values(RemoveAt(df, p)) ]_vars


\* C30: new-entry mode and a selected row never hold together; a save_data
\* that changes the table appends one row and starts in new-entry mode with
\* no selection, and from any other state save_data leaves the table and
\* the history as they are; an update_data that changes the table starts
\* with a row selected.
C30_ModeExcludesSelection ==
    /\ [](~(new_entry_mode /\ selected_index # None))
    /\ [][ /\ (lastOp' = "save_data" /\ df' # df) =>
                 /\ new_entry_mode /\ selected_index = None
                 /\ Len(df') = Len(df) + 1
                 /\ Values(SubSeq(df', 1, Len(df))) = Values(df)
           /\ (save_data(MaxEditRows, MaxEditHistory)
                 /\ ~(new_entry_mode /\ selected_index = None)) =>
                 UNCHANGED <<df, history>>
           /\ (lastOp' = "update_data" /\ df' # df) => selected_index # None ]_vars

\* a row was appended in new-entry mode and a later selection left that mode
C30_Witness ==
    /\ lastOp = "save_data"
    /\ Len(df) = 2
    /\ Len(history) = 1 /\ Len(history[1]) = 1
    /\ selected_index # None
    /\ ~new_entry_mode


(***************************************************************************)
(* An undo/redo session: the handlers that change the row table or the     *)
(* two stacks, on a table of one row.  Rows are appended or deleted only   *)
(* while the undo stack is short; update_data is never held back, so the   *)
(* undo stack reaches HISTORY_LIMIT and drops its oldest entries.          *)
(***************************************************************************)
UndoFiles == { File(TRUE, TRUE, AppColumnSet, <<RowA>>) }

InitHistory == InitWith(UndoFiles, {TRUE}, None)

NextHistory ==
    \/ load_data \/ start_new_entry \/ populate_form_from_selection
    \/ save_data(MaxUndoRows, MaxUndoSaves)
    \/ update_data(MaxUndoRows, HISTORY_LIMIT + 1)
    \/ delete_data(MaxUndoSaves)
    \/ to_excel_returns \/ save_error_closed \/ message_closed
    \/ undo_last_change \/ redo_last_change

SpecHistory == InitHistory /\ [][NextHistory]_vars

IsSuffix(s, t) == Len(s) <= Len(t) /\ s = SubSeq(t, Len(t) - Len(s) + 1, Len(t))

\* a save_data, update_data or delete_data that got past its checks and
\* the confirmation
Mutated ==
    /\ \/ save_data(MaxUndoRows, MaxUndoSaves)
       \/ update_data(MaxUndoRows, HISTORY_LIMIT + 1)
       \/ delete_data(MaxUndoSaves)
    /\ \/ <<fg, history>>' # <<fg, history>>
       \/ dialog' # dialog /\ Last(dialog').then # "none"
Undone == undo_last_change /\ history # <<>>
Redone == redo_last_change /\ redo_stack # <<>>

\* C27: a mutation puts the table it found on top of the undo stack and
\* keeps the newest HISTORY_LIMIT - 1 earlier entries below it; an undo
\* makes the top of the undo stack the table, pops it, and puts the table
\* it replaced on top of the redo stack; a redo makes the top of the redo
\* stack the table and puts the replaced table back on the undo stack.  So
\* an undo right after a mutation restores the table before it, a redo
\* right after that undo restores the table after it, and n undos after n
\* mutations (n <= 20) restore the table before the first.
C27_UndoRedoRestore ==
    [][ /\ Mutated =>
             /\ Len(history') = Min(Len(history) + 1, HISTORY_LIMIT)
             /\ Last(history') = df
             /\ IsSuffix(Front(history'), history)
        /\ Undone =>
             /\ df' = Last(history)
             /\ history' = Front(history)
             /\ redo_stack' = Append(redo_stack, df)
        /\ Redone =>
             /\ df' = Last(redo_stack)
             /\ redo_stack' = Front(redo_stack)
             /\ Len(history') = Min(Len(history) + 1, HISTORY_LIMIT)
             /\ Last(history') = df
             /\ IsSuffix(Front(history'), history) ]_vars

\* twenty mutations of the one-row table were undone one after the other:
\* the table is the first one again, the mutated tables wait on the redo stack
C27_Witness ==
    /\ lastOp = "undo_last_change"
    /\ history = <<>>
    /\ Len(redo_stack) = HISTORY_LIMIT
    /\ \A i \in 1..HISTORY_LIMIT : redo_stack[i] = RangeIndex(<<RowB>>)
    /\ df = RangeIndex(<<RowA>>)


\* C28 as stated: the two stacks never hold more than HISTORY_LIMIT tables
\* together; every save_data, update_data and delete_data leaves the redo
\* stack empty, and every load_data leaves both stacks empty.
C28_StacksBoundedAndCleared ==
    /\ [](Len(history) + Len(redo_stack) <= HISTORY_LIMIT)
    /\ [][ /\ ( \/ save_data(MaxUndoRows, MaxUndoSaves)
                \/ update_data(MaxUndoRows, HISTORY_LIMIT + 1)
                \/ delete_data(MaxUndoSaves) ) => redo_stack' = <<>>
           /\ load_data => (history' = <<>> /\ redo_stack' = <<>>) ]_vars

\* C28, amended: the two stacks never hold more than HISTORY_LIMIT tables
\* together; a save_data, update_data or delete_data that gets past its
\* checks and the confirmation leaves the redo stack empty and one that
\* returns early leaves both stacks as they are; a load_data that reads the
\* file leaves both stacks empty and one that cannot read it leaves both
\* stacks as they are.
C28_StacksBoundedClearedOnChange ==
    /\ [](Len(history) + Len(redo_stack) <= HISTORY_LIMIT)
    /\ [][ /\ Mutated => redo_stack' = <<>>
           /\ ( /\ \/ save_data(MaxUndoRows, MaxUndoSaves)
                   \/ update_data(MaxUndoRows, HISTORY_LIMIT + 1)
                   \/ delete_data(MaxUndoSaves)
                /\ ~Mutated ) => UNCHANGED <<history, redo_stack>>
           /\ load_data =>
                IF inputFile.exists /\ ~inputFile.readable
                THEN UNCHANGED <<history, redo_stack>>
                ELSE history' = <<>> /\ redo_stack' = <<>> ]_vars

\* the undo stack was full, its oldest entries dropped, and half of it has
\* been undone: the two stacks hold HISTORY_LIMIT tables together
C28_Witness ==
    /\ Len(history) = 10
    /\ Len(redo_stack) = 10
    /\ \A i \in 1..10 : history[i] = RangeIndex(<<RowB>>)
                          /\ redo_stack[i] = RangeIndex(<<RowB>>)
    /\ lastOp = "undo_last_change"
    /\ fg = Ready

====
